---------------------------- MODULE Spec2Model ----------------------------
(***************************************************************************)
(* Model of the Kingst firmware extractor (src/extract_firmware.py).       *)
(*                                                                         *)
(* Byte buffers are sequences of 0..255; Python's 0-based offsets are      *)
(* kept, so data[i] is At(data, i).  Text (resource names, paths, output   *)
(* file names) is a sequence of code points.  A Python exception is a      *)
(* value: every operator that can raise returns a record whose field st    *)
(* is "ok" or the name of the exception class.                             *)
(***************************************************************************)
EXTENDS Integers, Sequences, FiniteSets, TLC

\* ------------------------------------------------------------------------
\* Python bytes / struct primitives
\* ------------------------------------------------------------------------

At(b, i) == b[i + 1]

SetMin(S) == CHOOSE x \in S : \A y \in S : x <= y
SetMax(S) == CHOOSE x \in S : \A y \in S : x >= y

Zeros(n) == [i \in 1..n |-> 0]
Fill(n, v) == [i \in 1..n |-> v]

\* A slice index as Python normalises it: negative counts from the end,
\* then clamped into 0..len.
SliceIndex(i, n) ==
    IF i < 0 THEN (IF i + n < 0 THEN 0 ELSE i + n) ELSE (IF i > n THEN n ELSE i)

\* b[lo:hi]
Slice(b, lo, hi) ==
    LET l == SliceIndex(lo, Len(b))
        h == SliceIndex(hi, Len(b))
    IN  IF l >= h THEN <<>> ELSE SubSeq(b, l + 1, h)

\* b[lo:]
SliceFrom(b, lo) == Slice(b, lo, Len(b))

\* struct.unpack_from accepts a negative offset as counted from the end and
\* raises struct.error unless n bytes lie inside the buffer.
UnpackOffset(b, off) == IF off < 0 THEN off + Len(b) ELSE off
CanUnpack(b, off, n) ==
    LET o == UnpackOffset(b, off) IN o >= 0 /\ o + n <= Len(b)

U8(b, off) == At(b, UnpackOffset(b, off))
U16BE(b, off) ==
    LET o == UnpackOffset(b, off) IN At(b, o) * 256 + At(b, o + 1)
\* A 32-bit field of 2^30 or more is read as 2^30: the program only
\* compares such a value with small constants and with offsets into a
\* buffer, and every buffer of the model is far shorter than 2^30 bytes.
U32Cap == 1073741824
U32BE(b, off) ==
    LET o == UnpackOffset(b, off)
    IN  IF At(b, o) >= 64 THEN U32Cap
        ELSE ((At(b, o) * 256 + At(b, o + 1)) * 256 + At(b, o + 2)) * 256 + At(b, o + 3)
U16LE(b, off) ==
    LET o == UnpackOffset(b, off) IN At(b, o + 1) * 256 + At(b, o)
U32LE(b, off) ==
    LET o == UnpackOffset(b, off)
    IN  IF At(b, o + 3) >= 64 THEN U32Cap
        ELSE ((At(b, o + 3) * 256 + At(b, o + 2)) * 256 + At(b, o + 1)) * 256 + At(b, o)
\* "<Q": capped like a 32-bit field when any of the upper four bytes is set
U64LE(b, off) ==
    LET o == UnpackOffset(b, off)
    IN  IF \E k \in 4..7 : At(b, o + k) # 0 THEN U32Cap ELSE U32LE(b, off)

\* struct.pack, for the builders of the input images
P16BE(v) == << v \div 256, v % 256 >>
P32BE(v) == << v \div 16777216, (v \div 65536) % 256, (v \div 256) % 256, v % 256 >>
P16LE(v) == << v % 256, v \div 256 >>
P32LE(v) == << v % 256, (v \div 256) % 256, (v \div 65536) % 256, v \div 16777216 >>
P64LE(v) == P32LE(v) \o <<0, 0, 0, 0>>

\* bytes.find(needle): the least offset at which needle occurs, or -1
MatchAt(b, n, p) == \A k \in 1..Len(n) : b[p + k] = n[k]
Find(b, n) ==
    LET S == {p \in 0..(Len(b) - Len(n)) : MatchAt(b, n, p)}
    IN  IF S = {} THEN -1 ELSE SetMin(S)
\* bytes.find / bytes.index from a start offset (start >= 0)
FindFrom(b, n, start) ==
    LET S == {p \in start..(Len(b) - Len(n)) : MatchAt(b, n, p)}
    IN  IF S = {} THEN -1 ELSE SetMin(S)

StartsWith(s, p) == Len(s) >= Len(p) /\ SubSeq(s, 1, Len(p)) = p

\* Lexicographic order of two sequences of numbers (Python's order on
\* bytes, on str and, element by element, on tuples).
SeqLess(a, b) ==
    \/ Len(a) < Len(b) /\ SubSeq(b, 1, Len(a)) = a
    \/ \E i \in 1..(IF Len(a) < Len(b) THEN Len(a) ELSE Len(b)) :
          /\ a[i] < b[i]
          /\ \A j \in 1..(i - 1) : a[j] = b[j]

\* bytes.rstrip(b"\x00")
RstripNul(b) ==
    LET K == {k \in 1..Len(b) : b[k] # 0}
    IN  IF K = {} THEN <<>> ELSE SubSeq(b, 1, SetMax(K))

\* bytes.decode("ascii", errors="ignore"): bytes above 127 are dropped
AsciiIgnore(b) == SelectSeq(b, LAMBDA x : x < 128)

\* ------------------------------------------------------------------------
\* Text: a str is the sequence of its code points.  T(<<"f","w">>) is the
\* text "fw"; the table lists the printable ASCII characters from code 32
\* (the double quote, the backslash and the backtick by name).
\* ------------------------------------------------------------------------

AsciiTable ==
    << " ", "!", "dquote", "#", "$", "%", "&", "'", "(", ")", "*", "+",
       ",", "-", ".", "/", "0", "1", "2", "3", "4", "5", "6", "7",
       "8", "9", ":", ";", "<", "=", ">", "?", "@", "A", "B", "C",
       "D", "E", "F", "G", "H", "I", "J", "K", "L", "M", "N", "O",
       "P", "Q", "R", "S", "T", "U", "V", "W", "X", "Y", "Z", "[",
       "bslash", "]", "^", "_", "btick", "a", "b", "c", "d", "e", "f", "g",
       "h", "i", "j", "k", "l", "m", "n", "o", "p", "q", "r", "s",
       "t", "u", "v", "w", "x", "y", "z", "{", "|", "}", "~" >>

Ord(c) == 31 + (CHOOSE i \in 1..Len(AsciiTable) : AsciiTable[i] = c)
T(s) == [i \in 1..Len(s) |-> Ord(s[i])]

\* str.lower() on the code points the model uses: A-Z map to a-z
Lower(s) == [i \in 1..Len(s) |-> IF s[i] >= 65 /\ s[i] <= 90 THEN s[i] + 32 ELSE s[i]]

\* str.find(sub)
StrFind(s, sub) == Find(s, sub)
\* sub in s
Contains(s, sub) == Find(s, sub) # -1

\* ------------------------------------------------------------------------
\* ExecutableIntrospector: find_macho_const_section and _is_elf
\* ------------------------------------------------------------------------

\* struct.unpack_from("<I", data, 0)[0] == 0xFEEDFACF, compared byte by
\* byte (the value is above the checker's integer range).
MACHO_MAGIC == <<207, 250, 237, 254>>
LC_SEGMENT_64 == 25
SEG_TEXT == T(<<"_", "_", "T", "E", "X", "T">>)
SECT_CONST == T(<<"_", "_", "c", "o", "n", "s", "t">>)

ELF_MAGIC == <<127, 69, 76, 70>>

_is_elf(data) == Slice(data, 0, 4) = ELF_MAGIC

\* The result of the lookup: st "ok" with found, or st "struct.error" when
\* an unpack_from reads outside the buffer.
MachoNone == [st |-> "ok", found |-> FALSE, file_off |-> 0, size |-> 0]
MachoAt(o, n) == [st |-> "ok", found |-> TRUE, file_off |-> o, size |-> n]
MachoRaise == [st |-> "struct.error", found |-> FALSE, file_off |-> 0, size |-> 0]

\* for _ in range(nsects): the sections of the __TEXT segment (lines 69-75);
\* st "ok" with found FALSE means the loop ran out.
RECURSIVE _macho_sections(_, _, _)
_macho_sections(data, nsects, sect_off) ==
    IF nsects <= 0 THEN MachoNone
    ELSE
      LET sectname == AsciiIgnore(RstripNul(Slice(data, sect_off, sect_off + 16)))
      IN  IF sectname = SECT_CONST
          THEN IF ~CanUnpack(data, sect_off + 48, 4) THEN MachoRaise
               ELSE IF ~CanUnpack(data, sect_off + 40, 8) THEN MachoRaise
               ELSE MachoAt(U32LE(data, sect_off + 48), U64LE(data, sect_off + 40))
          ELSE _macho_sections(data, nsects - 1, sect_off + 80)

\* for _ in range(ncmds): the load commands (lines 62-76)
RECURSIVE _macho_commands(_, _, _)
_macho_commands(data, ncmds, cmd_offset) ==
    IF ncmds <= 0 THEN MachoNone
    ELSE IF ~CanUnpack(data, cmd_offset, 8) THEN MachoRaise
    ELSE
      LET cmd == U32LE(data, cmd_offset)
          cmdsize == U32LE(data, cmd_offset + 4)
          segname == AsciiIgnore(RstripNul(Slice(data, cmd_offset + 8, cmd_offset + 24)))
          rest == _macho_commands(data, ncmds - 1, cmd_offset + cmdsize)
      IN  IF cmd = LC_SEGMENT_64 /\ segname = SEG_TEXT
          THEN IF ~CanUnpack(data, cmd_offset + 64, 4) THEN MachoRaise
               ELSE LET r == _macho_sections(data, U32LE(data, cmd_offset + 64),
                                             cmd_offset + 72)
                    IN  IF r.st # "ok" \/ r.found THEN r ELSE rest
          ELSE rest

find_macho_const_section(data) ==
    IF Len(data) < 32 THEN MachoNone
    ELSE IF Slice(data, 0, 4) # MACHO_MAGIC THEN MachoNone
    ELSE _macho_commands(data, U32LE(data, 16), 32)

\* ------------------------------------------------------------------------
\* ContainerLocator, anchor strategy: _find_qt_anchors
\* ------------------------------------------------------------------------

_TREE_ENTRY_SIZE == 14
_FLAG_DIR == 2

\* str.encode("utf-16-be") of text below U+10000
Utf16BE(s) == [i \in 1..(2 * Len(s)) |->
                 IF i % 2 = 1 THEN s[(i + 1) \div 2] \div 256 ELSE s[i \div 2] % 256]

\* bytes.decode("utf-16-be"), strict: ok is FALSE for UnicodeDecodeError (an
\* odd number of bytes, a lone or misplaced surrogate).
RECURSIVE DecodeUnits(_, _)
DecodeUnits(nb, i) ==
    IF i > Len(nb) THEN [ok |-> TRUE, text |-> <<>>]
    ELSE IF i = Len(nb) THEN [ok |-> FALSE, text |-> <<>>]
    ELSE
      LET u == nb[i] * 256 + nb[i + 1]
      IN  IF u >= 56320 /\ u <= 57343 THEN [ok |-> FALSE, text |-> <<>>]
          ELSE IF u >= 55296 /\ u <= 56319
          THEN IF i + 3 > Len(nb) THEN [ok |-> FALSE, text |-> <<>>]
               ELSE LET v == nb[i + 2] * 256 + nb[i + 3]
                        r == DecodeUnits(nb, i + 4)
                    IN  IF v < 56320 \/ v > 57343 \/ ~r.ok
                        THEN [ok |-> FALSE, text |-> <<>>]
                        ELSE [ok |-> TRUE,
                              text |-> <<65536 + (u - 55296) * 1024 + (v - 56320)>> \o r.text]
          ELSE LET r == DecodeUnits(nb, i + 2)
               IN  IF ~r.ok THEN r ELSE [ok |-> TRUE, text |-> <<u>> \o r.text]
DecodeUtf16BE(nb) == DecodeUnits(nb, 1)

FWUSB == T(<<"f", "w", "u", "s", "b">>)
\* line 97
fwusb_chars == Utf16BE(FWUSB)
\* line 98: struct.pack(">HI", 5, 0x006DEC92) + fwusb_chars
fwusb_needle == P16BE(5) \o P32BE(7203986) \o fwusb_chars

\* Lines 96-106.  names_base, or st "RuntimeError" when neither search hits.
_names_anchor(const_data) ==
    LET pos == Find(const_data, fwusb_needle)
    IN  IF pos # -1 THEN [st |-> "ok", names_base |-> pos, fallback |-> FALSE]
        ELSE LET pos2 == Find(const_data, fwusb_chars)
             IN  IF pos2 = -1
                 THEN [st |-> "RuntimeError", names_base |-> 0, fallback |-> TRUE]
                 ELSE [st |-> "ok", names_base |-> pos2 - 6, fallback |-> TRUE]

EmptyIndex == [k \in {} |-> <<>>]

\* A scan that records each name under its character offset only
RECURSIVE _scan_names_chars_only(_, _, _, _)
_scan_names_chars_only(const_data, names_base, off, name_by_off) ==
    LET abs_pos == names_base + off
        stop == [st |-> "ok", off |-> off, name_by_off |-> name_by_off]
    IN  IF abs_pos + 6 > Len(const_data) THEN stop
        ELSE IF ~CanUnpack(const_data, abs_pos, 2)
        THEN [st |-> "struct.error", off |-> off, name_by_off |-> name_by_off]
        ELSE
          LET nl == U16BE(const_data, abs_pos)
              nb == Slice(const_data, abs_pos + 6, abs_pos + 6 + nl * 2)
              nm == DecodeUtf16BE(nb)
          IN  IF nl = 0 \/ nl > 64 THEN stop
              ELSE IF ~nm.ok THEN stop
              ELSE _scan_names_chars_only(const_data, names_base, off + 6 + nl * 2,
                                          ((off + 6) :> nm.text) @@ name_by_off)

\* Lines 113-130, the while loop from offset off with the index built so
\* far.  Returns the final off and name_by_off.
RECURSIVE _scan_names(_, _, _, _)
_scan_names(const_data, names_base, off, name_by_off) ==
    LET abs_pos == names_base + off
        stop == [st |-> "ok", off |-> off, name_by_off |-> name_by_off]
    IN  IF abs_pos + 6 > Len(const_data) THEN stop
        ELSE IF ~CanUnpack(const_data, abs_pos, 2)
        THEN [st |-> "struct.error", off |-> off, name_by_off |-> name_by_off]
        ELSE
          LET nl == U16BE(const_data, abs_pos)
              nb == Slice(const_data, abs_pos + 6, abs_pos + 6 + nl * 2)
              nm == DecodeUtf16BE(nb)
          IN  IF nl = 0 \/ nl > 64 THEN stop
              ELSE IF ~nm.ok THEN stop
              ELSE _scan_names(const_data, names_base, off + 6 + nl * 2,
                               ((off + 6) :> nm.text) @@ ((off + 2) :> nm.text) @@ name_by_off)

MIN_BLOB == 1000
MAX_BLOB == 2000000
RUN_LENGTH == 5

\* Lines 143-150: the inner while loop from run with run_count blobs seen.
RECURSIVE _blob_run(_, _, _)
_blob_run(const_data, run, run_count) ==
    IF run_count >= RUN_LENGTH THEN "hit"
    ELSE IF ~CanUnpack(const_data, run, 4) THEN "struct.error"
    ELSE LET s == U32BE(const_data, run)
         IN  IF MIN_BLOB <= s /\ s <= MAX_BLOB
             THEN _blob_run(const_data, run + 4 + s, run_count + 1)
             ELSE "miss"

\* Lines 138-154: one turn of the outer while loop at offset search.
_probe_data(const_data, search) ==
    IF ~CanUnpack(const_data, search, 4) THEN "struct.error"
    ELSE LET size == U32BE(const_data, search)
         IN  IF size = 0 THEN "miss"
             ELSE IF MIN_BLOB <= size /\ size <= MAX_BLOB
             THEN _blob_run(const_data, search, 0)
             ELSE "miss"

\* Lines 135-156: search runs over names_end, names_end + 2, ... while it
\* is below len(const_data) - 8; the first offset whose probe is not a miss
\* decides.
_data_anchor(const_data, names_end) ==
    LET S == {c \in names_end..(Len(const_data) - 9) :
                 (c - names_end) % 2 = 0 /\ _probe_data(const_data, c) # "miss"}
    IN  IF S = {} THEN [st |-> "RuntimeError", data_base |-> 0]
        ELSE LET c == SetMin(S)
             IN  IF _probe_data(const_data, c) = "hit"
                 THEN [st |-> "ok", data_base |-> c]
                 ELSE [st |-> "struct.error", data_base |-> 0]

TREE_WINDOW == 4000
MIN_ROOT_CHILDREN == 2
MAX_ROOT_CHILDREN == 10

\* Lines 162-167: the test of one candidate
_is_root_entry(const_data, candidate) ==
    /\ U16BE(const_data, candidate + 4) = _FLAG_DIR
    /\ LET count == U32BE(const_data, candidate + 6)
           first_child == U32BE(const_data, candidate + 10)
       IN  MIN_ROOT_CHILDREN <= count /\ count <= MAX_ROOT_CHILDREN /\ first_child = 1

\* Candidates from the name-table start itself on, so that a record may
\* reach into the names
_tree_candidates_from_names(names_base) ==
    LET start == names_base
        stop == IF names_base - TREE_WINDOW > 0 THEN names_base - TREE_WINDOW ELSE 0
    IN  {c \in (stop + 1)..start : (start - c) % 2 = 0}

\* Line 161: range(names_base - 14, max(0, names_base - 4000), -2)
_tree_candidates(names_base) ==
    LET start == names_base - _TREE_ENTRY_SIZE
        stop == IF names_base - TREE_WINDOW > 0 THEN names_base - TREE_WINDOW ELSE 0
    IN  {c \in (stop + 1)..start : (start - c) % 2 = 0}

\* Lines 160-171: the first candidate, scanning backward, that qualifies
_tree_anchor(const_data, names_base) ==
    LET S == {c \in _tree_candidates(names_base) : _is_root_entry(const_data, c)}
    IN  IF S = {} THEN [st |-> "RuntimeError", tree_base |-> 0]
        ELSE [st |-> "ok", tree_base |-> SetMax(S)]

AnchorFail(st, why) ==
    [st |-> st, why |-> why, tree_base |-> 0, names_base |-> 0, names_end |-> 0,
     data_base |-> 0, name_by_off |-> EmptyIndex]

_find_qt_anchors(const_data) ==
    LET n == _names_anchor(const_data)
    IN  IF n.st # "ok" THEN AnchorFail(n.st, "names")
        ELSE
          LET names_base == n.names_base
              sc == _scan_names(const_data, names_base, 0, EmptyIndex)
          IN  IF sc.st # "ok" THEN AnchorFail(sc.st, "names")
              ELSE
                LET names_end == names_base + sc.off
                    d == _data_anchor(const_data, names_end)
                IN  IF d.st # "ok" THEN AnchorFail(d.st, "data")
                    ELSE
                      LET t == _tree_anchor(const_data, names_base)
                      IN  IF t.st # "ok" THEN AnchorFail(t.st, "tree")
                          ELSE [st |-> "ok", why |-> "", tree_base |-> t.tree_base,
                                names_base |-> names_base, names_end |-> names_end,
                                data_base |-> d.data_base,
                                name_by_off |-> sc.name_by_off]

\* ------------------------------------------------------------------------
\* ResourceTreeWalker, direct children: _read_tree_entry,
\* _collect_dir_children, _find_dir_by_content
\* ------------------------------------------------------------------------

\* The k-th smallest member of a finite set of numbers (k from 1)
KthSmallest(S, k) == CHOOSE x \in S : Cardinality({y \in S : y < x}) = k - 1
\* The members of S in increasing order
Ascending(S) == [k \in 1..Cardinality(S) |-> KthSmallest(S, k)]

\* Whether the four unpack_from calls of _read_tree_entry stay inside the
\* buffer (the last one reads up to pos + 14).
_tree_entry_readable(const_data, tree_base, idx) ==
    /\ idx <= Len(const_data)
    /\ CanUnpack(const_data, tree_base + idx * _TREE_ENTRY_SIZE + 10, 4)
    /\ CanUnpack(const_data, tree_base + idx * _TREE_ENTRY_SIZE, 4)

_read_tree_entry(const_data, tree_base, idx) ==
    LET pos == tree_base + idx * _TREE_ENTRY_SIZE
    IN  [name_off |-> U32BE(const_data, pos),
         flags |-> U16BE(const_data, pos + 4),
         v1 |-> U32BE(const_data, pos + 6),
         v2 |-> U32BE(const_data, pos + 10)]

\* dict.get(name_off, "")
_name_lookup(name_by_off, name_off) ==
    IF name_off \in DOMAIN name_by_off THEN name_by_off[name_off] ELSE <<>>

\* Lines 195-206 for one child index ci that is readable: the tuple the
\* loop appends, or keep FALSE when the loop continues without appending.
_dir_child(const_data, tree_base, data_base, name_by_off, ci) ==
    LET e == _read_tree_entry(const_data, tree_base, ci)
        abs_data == data_base + e.v2
        skip == [keep |-> FALSE, name |-> <<>>, blob |-> <<>>, stored_size |-> 0]
    IN  IF e.flags = _FLAG_DIR THEN skip
        ELSE IF abs_data + 4 > Len(const_data) THEN skip
        ELSE LET stored_size == U32BE(const_data, abs_data)
             IN  IF stored_size = 0 \/ stored_size > MAX_BLOB THEN skip
                 ELSE [keep |-> TRUE,
                       name |-> _name_lookup(name_by_off, e.name_off),
                       blob |-> Slice(const_data, abs_data + 4, abs_data + 4 + stored_size),
                       stored_size |-> stored_size]

\* The list of (name, blob, stored_size), or st "struct.error" when a tree
\* entry of the directory or of one of its children lies outside the buffer.
_collect_dir_children(const_data, tree_base, data_base, name_by_off, dir_idx) ==
    IF ~_tree_entry_readable(const_data, tree_base, dir_idx)
    THEN [st |-> "struct.error", results |-> <<>>]
    ELSE
      LET d == _read_tree_entry(const_data, tree_base, dir_idx)
          count == d.v1
          first_child == d.v2
      IN  IF d.flags # _FLAG_DIR THEN [st |-> "ok", results |-> <<>>]
          ELSE IF count > 0
                  /\ ~_tree_entry_readable(const_data, tree_base, first_child + count - 1)
          THEN [st |-> "struct.error", results |-> <<>>]
          ELSE
            LET kept == {ci \in first_child..(first_child + count - 1) :
                           _dir_child(const_data, tree_base, data_base, name_by_off, ci).keep}
                order == Ascending(kept)
            IN  [st |-> "ok",
                 results |-> [k \in 1..Len(order) |->
                    LET c == _dir_child(const_data, tree_base, data_base, name_by_off, order[k])
                    IN  [name |-> c.name, blob |-> c.blob, stored_size |-> c.stored_size]]]

DirNone == [st |-> "ok", dir_idx |-> -1, children |-> <<>>]

\* Lines 219-227: the loop over the root's children from index ci, n left.
RECURSIVE _find_dir_loop(_, _, _, _, _, _, _)
_find_dir_loop(const_data, tree_base, data_base, name_by_off, ci, n, fw_names) ==
    IF n <= 0 THEN DirNone
    ELSE IF ~_tree_entry_readable(const_data, tree_base, ci)
    THEN [st |-> "struct.error", dir_idx |-> -1, children |-> <<>>]
    ELSE
      LET e == _read_tree_entry(const_data, tree_base, ci)
          rest == _find_dir_loop(const_data, tree_base, data_base, name_by_off,
                                 ci + 1, n - 1, fw_names)
      IN  IF e.flags # _FLAG_DIR THEN rest
          ELSE
            LET c == _collect_dir_children(const_data, tree_base, data_base, name_by_off, ci)
            IN  IF c.st # "ok" THEN [st |-> c.st, dir_idx |-> -1, children |-> <<>>]
                ELSE IF \E k \in 1..Len(c.results) : c.results[k].name \in fw_names
                THEN [st |-> "ok", dir_idx |-> ci, children |-> c.results]
                ELSE rest

_find_dir_by_content(const_data, tree_base, data_base, name_by_off, root_idx, fw_names) ==
    IF ~_tree_entry_readable(const_data, tree_base, root_idx)
    THEN [st |-> "struct.error", dir_idx |-> -1, children |-> <<>>]
    ELSE
      LET r == _read_tree_entry(const_data, tree_base, root_idx)
      IN  IF r.flags # _FLAG_DIR THEN DirNone
          ELSE _find_dir_loop(const_data, tree_base, data_base, name_by_off,
                              r.v2, r.v1, fw_names)

\* ------------------------------------------------------------------------
\* FirmwareClassifier on the anchor path: _extract_macho_firmware builds the
\* resources dict {path: (raw, compressed)} that _write_firmware_files takes
\* ------------------------------------------------------------------------

_CYPRESS_FW_NAMES ==
    { T(<<"f", "w", "0", "1", "A", "1">>), T(<<"f", "w", "0", "1", "A", "2">>),
      T(<<"f", "w", "0", "1", "A", "3">>), T(<<"f", "w", "0", "1", "A", "4">>),
      T(<<"f", "w", "0", "3", "A", "1">>) }

_FPGA_MODELS ==
    { T(<<"L", "A", "1", "0", "1", "0", "A", "0">>), T(<<"L", "A", "1", "0", "1", "0", "A", "1">>),
      T(<<"L", "A", "1", "0", "1", "0", "A", "2">>),
      T(<<"L", "A", "1", "0", "1", "6">>), T(<<"L", "A", "1", "0", "1", "6", "A", "1">>),
      T(<<"L", "A", "2", "0", "1", "6">>), T(<<"L", "A", "2", "0", "1", "6", "A", "1">>),
      T(<<"L", "A", "2", "0", "1", "6", "A", "2">>),
      T(<<"L", "A", "5", "0", "1", "6">>), T(<<"L", "A", "5", "0", "1", "6", "A", "1">>),
      T(<<"L", "A", "5", "0", "1", "6", "A", "2">>),
      T(<<"L", "A", "5", "0", "3", "2", "A", "0">>),
      T(<<"M", "S", "6", "2", "1", "8">>) }

FW == T(<<"f", "w">>)
FWUSB_SLASH == T(<<"f", "w", "u", "s", "b", "/">>)
FWFPGA_SLASH == T(<<"f", "w", "f", "p", "g", "a", "/">>)

\* sorted(S) for a set of texts
SortedTexts(S) ==
    [k \in 1..Cardinality(S) |->
        CHOOSE x \in S : Cardinality({y \in S : SeqLess(y, x)}) = k - 1]

\* Python's order on the tuples (name, blob, stored_size)
_child_less(a, b) ==
    \/ SeqLess(a.name, b.name)
    \/ /\ a.name = b.name
       /\ \/ SeqLess(a.blob, b.blob)
          \/ a.blob = b.blob /\ a.stored_size < b.stored_size

\* sorted(children): each element goes to the place after the elements
\* smaller than it and after the equal ones that precede it in the list.
_sorted_children(children) ==
    LET place(i) == 1 + Cardinality({j \in 1..Len(children) :
                          \/ _child_less(children[j], children[i])
                          \/ children[j] = children[i] /\ j < i})
    IN  [k \in 1..Len(children) |->
            children[CHOOSE i \in 1..Len(children) : place(i) = k]]

EmptyResources == [p \in {} |-> [raw |-> <<>>, compressed |-> FALSE]]

\* resources[path] = (blob, False)
_put(resources, path, blob) ==
    (path :> [raw |-> blob, compressed |-> FALSE]) @@ resources

\* Lines 529-531
RECURSIVE _add_fwusb(_, _, _)
_add_fwusb(resources, sorted, i) ==
    IF i > Len(sorted) THEN resources
    ELSE _add_fwusb(IF StartsWith(sorted[i].name, FW)
                    THEN _put(resources, FWUSB_SLASH \o sorted[i].name, sorted[i].blob)
                    ELSE resources,
                    sorted, i + 1)

\* Lines 540-542: the children whose name is a known model
RECURSIVE _add_fpga_named(_, _, _)
_add_fpga_named(resources, sorted, i) ==
    IF i > Len(sorted) THEN resources
    ELSE _add_fpga_named(IF sorted[i].name \in _FPGA_MODELS
                         THEN _put(resources, FWFPGA_SLASH \o sorted[i].name, sorted[i].blob)
                         ELSE resources,
                         sorted, i + 1)

\* Lines 543-544: the others, in the order of the sorted list
_unresolved(sorted) == SelectSeq(sorted, LAMBDA c : c.name \notin _FPGA_MODELS)

\* Lines 546-547
_missing_models(resources) ==
    LET extracted_models ==
            {SubSeq(p, Len(FWFPGA_SLASH) + 1, Len(p)) :
                p \in {q \in DOMAIN resources : StartsWith(q, FWFPGA_SLASH)}}
    IN  SortedTexts(_FPGA_MODELS \ extracted_models)

\* Lines 548-550
RECURSIVE _assign_unresolved(_, _, _, _)
_assign_unresolved(resources, unresolved, missing, i) ==
    IF i > Len(unresolved) THEN resources
    ELSE _assign_unresolved(IF i <= Len(missing)
                            THEN _put(resources, FWFPGA_SLASH \o missing[i], unresolved[i].blob)
                            ELSE resources,
                            unresolved, missing, i + 1)

MachoFail(st) == [st |-> st, resources |-> EmptyResources]

\* Lines 546-550: the unresolved blobs take the missing model names
_fpga_fill(r2, sorted) ==
    [st |-> "ok",
     resources |-> _assign_unresolved(r2, _unresolved(sorted), _missing_models(r2), 1)]

\* Lines 538-550, with the children of the FPGA directory sorted
_fpga_sorted(r1, sorted) == _fpga_fill(_add_fpga_named(r1, sorted, 1), sorted)

\* Lines 535-552, after the directory search
_fpga_resources(r1, fpga) ==
    IF fpga.st # "ok" THEN MachoFail(fpga.st)
    ELSE IF fpga.dir_idx = -1 THEN [st |-> "ok", resources |-> r1]
    ELSE _fpga_sorted(r1, _sorted_children(fpga.children))

\* Lines 528-531
_usb_resources(usb) ==
    IF usb.dir_idx # -1
    THEN _add_fwusb(EmptyResources, _sorted_children(usb.children), 1)
    ELSE EmptyResources

\* Lines 528-552, after the first directory search
_macho_after_usb(const_data, tree_base, data_base, name_by_off, usb) ==
    IF usb.st # "ok" THEN MachoFail(usb.st)
    ELSE _fpga_resources(_usb_resources(usb),
                         _find_dir_by_content(const_data, tree_base, data_base, name_by_off,
                                              0, _FPGA_MODELS))

\* Lines 520-552: the resources dict, or st "struct.error"
_macho_resources(const_data, tree_base, data_base, name_by_off) ==
    _macho_after_usb(const_data, tree_base, data_base, name_by_off,
                     _find_dir_by_content(const_data, tree_base, data_base, name_by_off, 0,
                                          _CYPRESS_FW_NAMES))

\* ------------------------------------------------------------------------
\* PayloadDecoder: zlib.decompress, _intel_hex_to_blob,
\* _maybe_intel_hex_to_blob
\* ------------------------------------------------------------------------

ADLER_MOD == 65521

\* Sum of b[lo..hi] and of the bytes weighted by their distance to the end
\* of an n-byte message, modulo 65521, by halving (the recursion stays
\* shallow on long blobs).
RECURSIVE ByteSum(_, _, _)
ByteSum(b, lo, hi) ==
    IF lo > hi THEN 0
    ELSE IF lo = hi THEN b[lo]
    ELSE LET mid == (lo + hi) \div 2
         IN  (ByteSum(b, lo, mid) + ByteSum(b, mid + 1, hi)) % ADLER_MOD

RECURSIVE WeightedSum(_, _, _, _)
WeightedSum(b, lo, hi, n) ==
    IF lo > hi THEN 0
    ELSE IF lo = hi THEN ((n - lo + 1) * b[lo]) % ADLER_MOD
    ELSE LET mid == (lo + hi) \div 2
         IN  (WeightedSum(b, lo, mid, n) + WeightedSum(b, mid + 1, hi, n)) % ADLER_MOD

\* The two 16-bit halves of adler32(b)
AdlerA(b) == (1 + ByteSum(b, 1, Len(b))) % ADLER_MOD
AdlerB(b) == (Len(b) + WeightedSum(b, 1, Len(b), Len(b))) % ADLER_MOD

ZlibError == [ok |-> FALSE, data |-> <<>>]

\* The deflate blocks from offset pos with the output so far.  A stored
\* block (BTYPE 0) is LEN, NLEN and LEN literal bytes; after the final block
\* comes the big-endian adler32 of the output.  The streams of the model
\* hold stored blocks only: any other block type is read as invalid.
RECURSIVE _inflate_blocks(_, _, _)
_inflate_blocks(s, pos, out) ==
    IF pos + 5 > Len(s) THEN ZlibError
    ELSE
      LET hdr == At(s, pos)
          bfinal == hdr % 2
          btype == (hdr \div 2) % 4
          len == U16LE(s, pos + 1)
          nlen == U16LE(s, pos + 3)
          next == pos + 5 + len
          out2 == out \o Slice(s, pos + 5, next)
      IN  IF btype # 0 \/ len + nlen # 65535 \/ next > Len(s) THEN ZlibError
          ELSE IF bfinal = 0 THEN _inflate_blocks(s, next, out2)
          ELSE IF next + 4 > Len(s) THEN ZlibError
          ELSE IF U16BE(s, next) = AdlerB(out2) /\ U16BE(s, next + 2) = AdlerA(out2)
          THEN [ok |-> TRUE, data |-> out2]
          ELSE ZlibError

\* zlib.decompress(s): ok FALSE stands for zlib.error
zlib_decompress(s) ==
    IF Len(s) < 2 THEN ZlibError
    ELSE LET cmf == At(s, 0)
             flg == At(s, 1)
         IN  IF cmf % 16 # 8 \/ cmf \div 16 > 7 \/ (cmf * 256 + flg) % 31 # 0
                \/ (flg \div 32) % 2 = 1
             THEN ZlibError
             ELSE _inflate_blocks(s, 2, <<>>)

\* zlib.compress(data, 0) for data of at most 65535 bytes: header 78 01 and
\* one final stored block
ZlibStore(data) ==
    <<120, 1, 1>> \o P16LE(Len(data)) \o P16LE(65535 - Len(data)) \o data
        \o P16BE(AdlerB(data)) \o P16BE(AdlerA(data))

WHITESPACE == {9, 10, 11, 12, 13, 32}
COLON == 58
NEWLINE == 10

\* bytes.strip()
Strip(b) ==
    LET K == {k \in 1..Len(b) : b[k] \notin WHITESPACE}
    IN  IF K = {} THEN <<>> ELSE SubSeq(b, SetMin(K), SetMax(K))

\* bytes.split(b"\n")
SplitLines(b) ==
    LET nl == {k \in 1..Len(b) : b[k] = NEWLINE}
        cut == Ascending(nl)
        n == Len(cut)
    IN  [k \in 1..(n + 1) |->
            SubSeq(b, (IF k = 1 THEN 1 ELSE cut[k - 1] + 1),
                      (IF k = n + 1 THEN Len(b) ELSE cut[k] - 1))]

HexDigit(c) ==
    IF c >= 48 /\ c <= 57 THEN c - 48
    ELSE IF c >= 65 /\ c <= 70 THEN c - 55
    ELSE IF c >= 97 /\ c <= 102 THEN c - 87
    ELSE -1

\* codecs.decode(x, "hex"): ok FALSE for binascii.Error (odd length, a
\* character that is no hex digit)
Unhex(x) ==
    IF Len(x) % 2 = 1 \/ \E k \in 1..Len(x) : HexDigit(x[k]) = -1
    THEN [ok |-> FALSE, bytes |-> <<>>]
    ELSE [ok |-> TRUE,
          bytes |-> [k \in 1..(Len(x) \div 2) |->
                        HexDigit(x[2 * k - 1]) * 16 + HexDigit(x[2 * k])]]

\* Lines 256-268: the loop over the lines from line i with the records so
\* far.  st "struct.error": a decoded record shorter than its 4-byte header.
RECURSIVE _hex_records(_, _, _)
_hex_records(lines, i, datas) ==
    IF i > Len(lines) THEN [st |-> "ok", datas |-> datas]
    ELSE
      LET line == Strip(lines[i])
          record == Unhex(SubSeq(line, 2, Len(line)))
          next == _hex_records(lines, i + 1, datas)
      IN  IF line = <<>> \/ line[1] # COLON THEN next
          ELSE IF ~record.ok THEN next
          ELSE IF Len(record.bytes) < 4 THEN [st |-> "struct.error", datas |-> datas]
          ELSE
            LET byte_count == record.bytes[1]
                address == record.bytes[2] * 256 + record.bytes[3]
                record_type == record.bytes[4]
            IN  IF record_type = 0 /\ byte_count > 0
                THEN _hex_records(lines, i + 1,
                        Append(datas, [address |-> address,
                                       part |-> Slice(record.bytes, 4, 4 + byte_count)]))
                ELSE IF record_type = 1 THEN [st |-> "ok", datas |-> datas]
                ELSE next

\* Python's order on the tuples (address, data)
_record_less(a, b) ==
    \/ a.address < b.address
    \/ a.address = b.address /\ SeqLess(a.part, b.part)

\* datas.sort()
_sorted_records(datas) ==
    LET place(i) == 1 + Cardinality({j \in 1..Len(datas) :
                          \/ _record_less(datas[j], datas[i])
                          \/ datas[j] = datas[i] /\ j < i})
    IN  [k \in 1..Len(datas) |-> datas[CHOOSE i \in 1..Len(datas) : place(i) = k]]

\* A copy that pushes the bytes from off on to the right instead of
\* replacing them
_img_assign_inserting(img, off, part) ==
    LET start == IF off > Len(img) THEN Len(img) ELSE off
    IN  Slice(img, 0, start) \o part \o SliceFrom(img, start)

\* img[off:off + len(part)] = part on a bytearray: the slice is clamped to
\* the array, and what it covers is replaced by the whole of part.
_img_assign(img, off, part) ==
    LET start == IF off > Len(img) THEN Len(img) ELSE off
        stop0 == IF off + Len(part) > Len(img) THEN Len(img) ELSE off + Len(part)
        stop == IF stop0 < start THEN start ELSE stop0
    IN  Slice(img, 0, start) \o part \o SliceFrom(img, stop)

\* Lines 275-276
RECURSIVE _img_fill(_, _, _)
_img_fill(img, datas, i) ==
    IF i > Len(datas) THEN img
    ELSE _img_fill(_img_assign(img, datas[i].address, datas[i].part), datas, i + 1)

_intel_hex_to_blob(hexdata) ==
    LET r == _hex_records(SplitLines(hexdata), 1, <<>>)
    IN  IF r.st # "ok" THEN [st |-> r.st, blob |-> <<>>]
        ELSE IF r.datas = <<>> THEN [st |-> "ok", blob |-> hexdata]
        ELSE LET datas == _sorted_records(r.datas)
                 last == datas[Len(datas)]
                 length == last.address + Len(last.part)
             IN  [st |-> "ok", blob |-> _img_fill(Zeros(length), datas, 1)]

_maybe_intel_hex_to_blob(data) ==
    IF data # <<>> /\ data[1] = COLON /\ \A k \in 1..Len(data) : data[k] < 128
    THEN _intel_hex_to_blob(data)
    ELSE [st |-> "ok", blob |-> data]

\* ------------------------------------------------------------------------
\* FirmwareClassifier and writer: _write_firmware_files
\* ------------------------------------------------------------------------

FWUSB_FW == T(<<"f", "w", "u", "s", "b", "/", "f", "w">>)
KINGST_LA == T(<<"k", "i", "n", "g", "s", "t", "-", "l", "a", "-">>)
DOT_FW == T(<<".", "f", "w">>)
KINGST == T(<<"k", "i", "n", "g", "s", "t", "-">>)
FPGA_BITSTREAM == T(<<"-", "f", "p", "g", "a", ".", "b", "i", "t", "s", "t", "r", "e", "a", "m">>)
SLASH == 47

\* (b"\x78\x9c", b"\x78\xda", b"\x78\x01")
ZLIB_SIGNATURES == { <<120, 156>>, <<120, 218>>, <<120, 1>> }
MIN_BITSTREAM == 1000

NoFiles == [n \in {} |-> <<>>]
WriteStart == [st |-> "ok", files |-> NoFiles, extracted |-> <<>>]

\* out_path.write_bytes(blob) and extracted.append(out_name).  The output
\* directory holds no sub-directory, so a name with a "/" in it names a
\* file in a directory that does not exist: FileNotFoundError.
_write_bytes(w, out_name, blob) ==
    IF \E k \in 1..Len(out_name) : out_name[k] = SLASH
    THEN [w EXCEPT !.st = "FileNotFoundError"]
    ELSE [w EXCEPT !.files = (out_name :> blob) @@ w.files,
                   !.extracted = Append(w.extracted, out_name)]

\* path[path.find(sub):] if sub in path else path
_path_tail(path, sub) ==
    IF Contains(path, sub) THEN SliceFrom(path, StrFind(path, sub)) ELSE path

\* Lines 460-474: a resource under fwfpga/
_write_fpga(w, path_tail2, raw) ==
    LET model == Lower(SliceFrom(path_tail2, Len(FWFPGA_SLASH)))
        z == zlib_decompress(SliceFrom(raw, 4))
        raw2 == IF Len(raw) > 4 /\ Slice(raw, 4, 6) \in ZLIB_SIGNATURES /\ z.ok
                THEN z.data ELSE raw
    IN  IF Len(raw2) < MIN_BITSTREAM THEN w
        ELSE _write_bytes(w, KINGST \o model \o FPGA_BITSTREAM, raw2)

\* Lines 450-457: a resource under fwusb/ whose leaf starts with fw
_write_mcu(w, path_tail, raw) ==
    LET stem == Lower(SliceFrom(path_tail, Len(FWUSB_FW)))
        h == _maybe_intel_hex_to_blob(raw)
    IN  IF h.st # "ok" THEN [w EXCEPT !.st = h.st]
        ELSE _write_bytes(w, KINGST_LA \o stem \o DOT_FW, h.blob)

\* Lines 443-474: the body of the loop for one item of the dict
_write_one(w, path, item) ==
    LET z == zlib_decompress(SliceFrom(item.raw, 4))
        raw == IF item.compressed THEN z.data ELSE item.raw
        path_tail == _path_tail(path, FWUSB_SLASH)
        path_tail2 == _path_tail(path, FWFPGA_SLASH)
    IN  IF item.compressed /\ ~z.ok THEN [w EXCEPT !.st = "zlib.error"]
        ELSE IF StartsWith(path_tail, FWUSB_FW) THEN _write_mcu(w, path_tail, raw)
        ELSE IF StartsWith(path_tail2, FWFPGA_SLASH) THEN _write_fpga(w, path_tail2, raw)
        ELSE w

\* Line 442: for path, (raw, compressed) in sorted(resources.items()); an
\* exception leaves the loop with the files written so far on disk.
RECURSIVE _write_loop(_, _, _, _)
_write_loop(w, resources, order, i) ==
    IF i > Len(order) \/ w.st # "ok" THEN w
    ELSE _write_loop(_write_one(w, order[i], resources[order[i]]), resources, order, i + 1)

_write_firmware_files(resources) ==
    _write_loop(WriteStart, resources, SortedTexts(DOMAIN resources), 1)

\* ------------------------------------------------------------------------
\* ContainerLocator, symbol strategy: _parse_elf_symtab, _elf_sym_bytes
\* ------------------------------------------------------------------------

_ELF_SYM_STRUCT == T(<<"_", "Z", "L", "1", "8", "q", "t", "_", "r", "e", "s", "o", "u", "r",
                       "c", "e", "_", "s", "t", "r", "u", "c", "t">>)
_ELF_SYM_NAMES == T(<<"_", "Z", "L", "1", "6", "q", "t", "_", "r", "e", "s", "o", "u", "r",
                      "c", "e", "_", "n", "a", "m", "e">>)
_ELF_SYM_DATAS == T(<<"_", "Z", "L", "1", "6", "q", "t", "_", "r", "e", "s", "o", "u", "r",
                      "c", "e", "_", "d", "a", "t", "a">>)
DOT_SYMTAB == T(<<".", "s", "y", "m", "t", "a", "b">>)
DOT_STRTAB == T(<<".", "s", "t", "r", "t", "a", "b">>)

ELFCLASS64 == 2
E_SHOFF_AT == 40
E_SHENTSIZE_AT == 58
SHDR_STRUCT_SIZE == 64
ELF_SYM_SIZE == 24

\* b[off : off + n] for off >= 0 and n >= 0, without forming off + n when a
\* capped field makes it large.
SliceLen(b, off, n) ==
    IF off >= Len(b) THEN <<>>
    ELSE Slice(b, off, off + (IF n > Len(b) THEN Len(b) ELSE n))

\* Line 309: e_shoff + i * e_shentsize, capped once it lies beyond the file
_shdr_off(data, e_shoff, e_shentsize, i) ==
    IF i = 0 \/ e_shentsize = 0 THEN e_shoff
    ELSE IF i > Len(data) \/ e_shentsize > Len(data) \/ e_shoff > Len(data) THEN U32Cap
    ELSE e_shoff + i * e_shentsize

\* Whether struct.unpack_from("<IIQQQQIIQQ", data, off) has its 64 bytes
_shdr_readable(data, e_shoff, e_shentsize, i) ==
    LET off == _shdr_off(data, e_shoff, e_shentsize, i)
    IN  off <= Len(data) /\ off + SHDR_STRUCT_SIZE <= Len(data)

\* Lines 308-310: the fields of the tuple the program later uses
shdr(data, e_shoff, e_shentsize, i) ==
    LET off == _shdr_off(data, e_shoff, e_shentsize, i)
    IN  [sh_name |-> U32LE(data, off), sh_addr |-> U64LE(data, off + 16),
         sh_offset |-> U64LE(data, off + 24), sh_size |-> U64LE(data, off + 32)]

\* bytes.index(b"\x00", start): -1 stands for ValueError
IndexNul(b, start) == IF start > Len(b) THEN -1 ELSE FindFrom(b, <<0>>, start)

ElfFail(st, why) ==
    [st |-> st, why |-> why, syms |-> EmptyIndex, e_shoff |-> 0, e_shentsize |-> 0]

\* Lines 335-346: the dict of symbols, a later entry replacing an earlier
\* one of the same name.
_elf_syms(symtab_data, strtab_data) ==
    LET n == Len(symtab_data) \div ELF_SYM_SIZE
        st_name(i) == U32LE(symtab_data, i * ELF_SYM_SIZE)
        kept == {i \in 0..(n - 1) : st_name(i) < Len(strtab_data)}
        name_end(i) == IF IndexNul(strtab_data, st_name(i)) = -1 THEN Len(strtab_data)
                       ELSE IndexNul(strtab_data, st_name(i))
        name(i) == Slice(strtab_data, st_name(i), name_end(i))
        last(nm) == SetMax({i \in kept : name(i) = nm})
    IN  [nm \in {name(i) : i \in kept} |->
           [value |-> U64LE(symtab_data, last(nm) * ELF_SYM_SIZE + 8),
            size |-> U64LE(symtab_data, last(nm) * ELF_SYM_SIZE + 16),
            shndx |-> U16LE(symtab_data, last(nm) * ELF_SYM_SIZE + 6)]]

\* Lines 301-347.  st is "ok" or the exception that leaves the function.
_parse_elf_symtab(data) ==
    IF Len(data) < 5 THEN ElfFail("IndexError", "index out of range")
    ELSE IF At(data, 4) # ELFCLASS64 THEN ElfFail("RuntimeError", "Only ELF64 supported")
    ELSE IF ~CanUnpack(data, E_SHOFF_AT, 8) \/ ~CanUnpack(data, E_SHENTSIZE_AT, 6)
    THEN ElfFail("struct.error", "unpack_from")
    ELSE
      LET e_shoff == U64LE(data, E_SHOFF_AT)
          e_shentsize == U16LE(data, E_SHENTSIZE_AT)
          e_shnum == U16LE(data, E_SHENTSIZE_AT + 2)
          e_shstrndx == U16LE(data, E_SHENTSIZE_AT + 4)
          readable(i) == _shdr_readable(data, e_shoff, e_shentsize, i)
          s(i) == shdr(data, e_shoff, e_shentsize, i)
          shstrtab == SliceLen(data, s(e_shstrndx).sh_offset, s(e_shstrndx).sh_size)
          name_end(i) == IndexNul(shstrtab, s(i).sh_name)
          name(i) == Slice(shstrtab, s(i).sh_name, name_end(i))
          bad == {i \in 0..(e_shnum - 1) : ~readable(i) \/ name_end(i) = -1}
          section(nm) == s(SetMax({i \in 0..(e_shnum - 1) : name(i) = nm}))
          has(nm) == \E i \in 0..(e_shnum - 1) : name(i) = nm
      IN  IF ~readable(e_shstrndx) THEN ElfFail("struct.error", "unpack_from")
          ELSE IF bad # {}
          THEN IF ~readable(SetMin(bad)) THEN ElfFail("struct.error", "unpack_from")
               ELSE ElfFail("ValueError", "subsection not found")
          ELSE IF ~has(DOT_SYMTAB) \/ ~has(DOT_STRTAB)
          THEN ElfFail("RuntimeError", "No .symtab/.strtab in ELF")
          ELSE [st |-> "ok", why |-> "",
                syms |-> _elf_syms(
                    SliceLen(data, section(DOT_SYMTAB).sh_offset, section(DOT_SYMTAB).sh_size),
                    SliceLen(data, section(DOT_STRTAB).sh_offset, section(DOT_STRTAB).sh_size)),
                e_shoff |-> e_shoff, e_shentsize |-> e_shentsize]

\* Lines 350-359.  RuntimeError for an absent symbol, struct.error when the
\* symbol's section header lies outside the file.
_elf_sym_bytes(data, elf, sym_name) ==
    IF sym_name \notin DOMAIN elf.syms
    THEN [st |-> "RuntimeError", why |-> "Symbol not found in ELF", bytes |-> <<>>]
    ELSE LET sym == elf.syms[sym_name] IN
         IF ~_shdr_readable(data, elf.e_shoff, elf.e_shentsize, sym.shndx)
         THEN [st |-> "struct.error", why |-> "unpack_from", bytes |-> <<>>]
         ELSE LET sh == shdr(data, elf.e_shoff, elf.e_shentsize, sym.shndx)
                  start == sh.sh_offset + (sym.value - sh.sh_addr)
              IN  [st |-> "ok", why |-> "", bytes |-> Slice(data, start, start + sym.size)]

\* ------------------------------------------------------------------------
\* ResourceTreeWalker, symbol strategy: _elf_read_qt_resources
\* ------------------------------------------------------------------------

FLAG_DIR == 2
FLAG_COMPRESSED == 1

\* flags & bit, for a bit that is a power of two
HasFlag(flags, bit) == (flags \div bit) % 2 = 1

\* A reader of the names region that takes the characters right after the
\* 2-byte length, where the 4-byte hash is
_qt_resource_name_at_hash(res_names, offset) ==
    IF ~CanUnpack(res_names, offset, 2) THEN [ok |-> FALSE, text |-> <<>>]
    ELSE DecodeUtf16BE(Slice(res_names, offset + 2,
                             offset + 2 + U16BE(res_names, offset) * 2))

\* Lines 362-365.  ok is FALSE for struct.error and for UnicodeDecodeError.
_qt_resource_name(res_names, offset) ==
    IF ~CanUnpack(res_names, offset, 2) THEN [ok |-> FALSE, text |-> <<>>]
    ELSE DecodeUtf16BE(Slice(res_names, offset + 6,
                             offset + 6 + U16BE(res_names, offset) * 2))

\* Lines 368-370.  ok is FALSE for struct.error.
_qt_resource_data(res_datas, offset) ==
    IF ~CanUnpack(res_datas, offset, 4) THEN [ok |-> FALSE, raw |-> <<>>]
    ELSE [ok |-> TRUE, raw |-> SliceLen(res_datas, offset + 4, U32BE(res_datas, offset))]

\* Lines 380-395: the flat table; an entry is complete when 14 bytes remain
_table_len(res_struct) == Len(res_struct) \div _TREE_ENTRY_SIZE

_table_entry(res_struct, res_names, idx) ==
    LET offset == idx * _TREE_ENTRY_SIZE
    IN  [name |-> _qt_resource_name(res_names, U32BE(res_struct, offset)),
         flags |-> U16BE(res_struct, offset + 4),
         child_count |-> U32BE(res_struct, offset + 6),
         first_child |-> U32BE(res_struct, offset + 10),
         data_offset |-> U32BE(res_struct, offset + 10)]

\* str.lstrip("/")
LstripSlash(s) ==
    LET keep == {k \in 1..Len(s) : s[k] # SLASH}
    IN  IF keep = {} THEN <<>> ELSE SubSeq(s, SetMin(keep), Len(s))

WalkFail == [ok |-> FALSE, resources |-> EmptyResources]

\* Lines 397-408, collect(idx, prefix) with the dict built so far.  A
\* directory nested deeper than the table is long revisits an entry and so
\* recurses without end (RecursionError); a child index beyond the table is
\* an IndexError.  Either leaves _elf_read_qt_resources by an exception.
RECURSIVE collect(_, _, _, _, _, _, _)
RECURSIVE _collect_children(_, _, _, _, _, _, _, _)
collect(res_struct, res_names, res_datas, idx, prefix, depth, acc) ==
    IF ~acc.ok THEN acc
    ELSE IF idx >= _table_len(res_struct) \/ depth > _table_len(res_struct) THEN WalkFail
    ELSE
      LET entry == _table_entry(res_struct, res_names, idx)
          path == LstripSlash(prefix \o <<SLASH>> \o entry.name.text)
          raw == _qt_resource_data(res_datas, entry.data_offset)
      IN  IF HasFlag(entry.flags, FLAG_DIR)
          THEN IF entry.child_count = 0 THEN acc
               ELSE IF entry.first_child > _table_len(res_struct)
                       \/ entry.child_count > _table_len(res_struct)
                       \/ entry.first_child + entry.child_count > _table_len(res_struct)
               THEN WalkFail
               ELSE _collect_children(res_struct, res_names, res_datas, entry.first_child,
                                      entry.child_count, path, depth + 1, acc)
          ELSE IF ~raw.ok THEN WalkFail
          ELSE [ok |-> TRUE,
                resources |-> (path :> [raw |-> raw.raw,
                                        compressed |-> HasFlag(entry.flags, FLAG_COMPRESSED)])
                              @@ acc.resources]

\* Lines 403-404: for i in range(child_count): collect(first_child + i, path)
_collect_children(res_struct, res_names, res_datas, first, count, path, depth, acc) ==
    IF count = 0 \/ ~acc.ok THEN acc
    ELSE _collect_children(res_struct, res_names, res_datas, first + 1, count - 1, path, depth,
                           collect(res_struct, res_names, res_datas, first, path, depth, acc))

\* Lines 373-411.  ok is FALSE when any exception leaves the function.
_elf_read_qt_resources(res_struct, res_names, res_datas) ==
    IF \E i \in 0..(_table_len(res_struct) - 1) :
          ~_table_entry(res_struct, res_names, i).name.ok
    THEN WalkFail
    ELSE collect(res_struct, res_names, res_datas, 0, <<>>, 0,
                 [ok |-> TRUE, resources |-> EmptyResources])

\* Lines 416-434 of extract_from_elf: parse, locate the three symbols, walk.
\* st "ok" carries the resources; st "False" is the early return after the
\* diagnostic diag; any other st is an exception that leaves the function.
ElfStage(st, diag, resources) == [st |-> st, diag |-> diag, resources |-> resources]

\* Lines 430-434
_elf_walked(walk) ==
    IF ~walk.ok THEN ElfStage("False", "ERROR walking Qt resource tree", EmptyResources)
    ELSE ElfStage("ok", "", walk.resources)

\* Lines 422-434, with the outcome of the three _elf_sym_bytes calls: the
\* first that fails decides.
_elf_located(res_struct, res_names, res_datas) ==
    LET first == IF res_struct.st # "ok" THEN res_struct.st
                 ELSE IF res_names.st # "ok" THEN res_names.st
                 ELSE res_datas.st
    IN  IF first = "RuntimeError"
        THEN ElfStage("False", "ERROR locating Qt resource symbols", EmptyResources)
        ELSE IF first # "ok" THEN ElfStage(first, "", EmptyResources)
        ELSE _elf_walked(_elf_read_qt_resources(res_struct.bytes, res_names.bytes,
                                                res_datas.bytes))

\* Lines 416-434, with the outcome of _parse_elf_symtab
_elf_parsed(data, elf) ==
    IF elf.st = "RuntimeError"
    THEN ElfStage("False", "ERROR parsing ELF: " \o elf.why, EmptyResources)
    ELSE IF elf.st # "ok" THEN ElfStage(elf.st, "", EmptyResources)
    ELSE _elf_located(_elf_sym_bytes(data, elf, _ELF_SYM_STRUCT),
                      _elf_sym_bytes(data, elf, _ELF_SYM_NAMES),
                      _elf_sym_bytes(data, elf, _ELF_SYM_DATAS))

_elf_resources(data) == _elf_parsed(data, _parse_elf_symtab(data))

\* Line 436, with the writer's outcome
_elf_written(w) == [st |-> w.st, diag |-> "", w |-> w]

\* Lines 414-436: the whole function, the writer's outcome included
_elf_staged(r) ==
    IF r.st # "ok" THEN [st |-> r.st, diag |-> r.diag, w |-> WriteStart]
    ELSE _elf_written(_write_firmware_files(r.resources))

extract_from_elf(data) == _elf_staged(_elf_resources(data))

\* ------------------------------------------------------------------------
\* Inputs: Qt resource containers, laid out as the readers above read them
\* ------------------------------------------------------------------------

RECURSIVE Flatten(_)
Flatten(ss) == IF ss = <<>> THEN <<>> ELSE Head(ss) \o Flatten(Tail(ss))

RECURSIVE SumSeq(_)
SumSeq(ns) == IF ns = <<>> THEN 0 ELSE Head(ns) + SumSeq(Tail(ns))

\* The hash field of the fwusb name entry (line 98); no reader looks at the
\* hash of another entry.
FWUSB_HASH == 7203986
NameHash(name) == IF name = FWUSB THEN FWUSB_HASH ELSE 0

\* One entry of the names region: length, hash, UTF-16BE characters
NameEntry(name) == P16BE(Len(name)) \o P32BE(NameHash(name)) \o Utf16BE(name)

\* A node is [name, flags, child_count, first_child, blob]; the node list is
\* the tree in table order.
DirNode(name, child_count, first_child) ==
    [name |-> name, flags |-> FLAG_DIR, child_count |-> child_count,
     first_child |-> first_child, blob |-> <<>>]
FileNode(name, flags, blob) ==
    [name |-> name, flags |-> flags, child_count |-> 0, first_child |-> 0, blob |-> blob]

IsDirNode(node) == HasFlag(node.flags, FLAG_DIR)

NameOffsetOf(nodes, k) ==
    SumSeq([j \in 1..(k - 1) |-> 6 + 2 * Len(nodes[j].name)])
DataOffsetOf(nodes, k) ==
    SumSeq([j \in 1..(k - 1) |-> IF IsDirNode(nodes[j]) THEN 0 ELSE 4 + Len(nodes[j].blob)])

BuildNames(nodes) == Flatten([k \in 1..Len(nodes) |-> NameEntry(nodes[k].name)])
BuildDatas(nodes) ==
    Flatten([k \in 1..Len(nodes) |->
               IF IsDirNode(nodes[k]) THEN <<>>
               ELSE P32BE(Len(nodes[k].blob)) \o nodes[k].blob])
BuildTree(nodes) ==
    Flatten([k \in 1..Len(nodes) |->
               P32BE(NameOffsetOf(nodes, k)) \o P16BE(nodes[k].flags) \o
               (IF IsDirNode(nodes[k])
                THEN P32BE(nodes[k].child_count) \o P32BE(nodes[k].first_child)
                ELSE P16BE(0) \o P16BE(0) \o P32BE(DataOffsetOf(nodes, k)))])

\* The section a Mach-O image carries the container in: the three regions
\* in the order tree, names, data, after lead bytes of other constants.
BuildSection(lead, nodes) == lead \o BuildTree(nodes) \o BuildNames(nodes) \o BuildDatas(nodes)

\* ------------------------------------------------------------------------
\* Inputs: ELF64 and Mach-O 64 images around a container
\* ------------------------------------------------------------------------

DOT_RODATA == T(<<".", "r", "o", "d", "a", "t", "a">>)
DOT_SHSTRTAB == T(<<".", "s", "h", "s", "t", "r", "t", "a", "b">>)

SymKeys == <<"struct", "names", "datas">>
SymName(key) ==
    CASE key = "struct" -> _ELF_SYM_STRUCT
      [] key = "names" -> _ELF_SYM_NAMES
      [] key = "datas" -> _ELF_SYM_DATAS

\* One Elf64_Shdr: sh_name, sh_type, sh_flags, sh_addr, sh_offset, sh_size
\* and the four fields the program does not read.
ElfShdr(sh_name, sh_addr, sh_offset, sh_size) ==
    P32LE(sh_name) \o P32LE(1) \o P64LE(0) \o P64LE(sh_addr) \o P64LE(sh_offset)
    \o P64LE(sh_size) \o Zeros(24)

\* One Elf64_Sym: st_name, st_info, st_other, st_shndx, st_value, st_size
ElfSym(st_name, st_shndx, st_value, st_size) ==
    P32LE(st_name) \o <<1, 0>> \o P16LE(st_shndx) \o P64LE(st_value) \o P64LE(st_size)

\* An ELF64 image: header, .rodata holding the three regions, .symtab with
\* the symbols named in syms (a sequence of keys), .strtab, .shstrtab and five
\* section headers.  named is the set of section names the header table
\* gives; a section outside it is listed under the empty name.  shndx maps a
\* symbol key to its st_shndx.
ElfImage(res_struct, res_names, res_datas, syms, named, class, shndx) ==
    LET addr == 4096
        rodata == res_struct \o res_names \o res_datas
        place == [struct |-> 0, names |-> Len(res_struct),
                  datas |-> Len(res_struct) + Len(res_names)]
        size == [struct |-> Len(res_struct), names |-> Len(res_names),
                 datas |-> Len(res_datas)]
        strtab == <<0>> \o Flatten([k \in 1..Len(syms) |-> SymName(syms[k]) \o <<0>>])
        st_name(k) == 1 + SumSeq([j \in 1..(k - 1) |-> Len(SymName(syms[j])) + 1])
        symtab == Zeros(ELF_SYM_SIZE) \o
                  Flatten([k \in 1..Len(syms) |->
                             ElfSym(st_name(k), shndx[syms[k]],
                                    addr + place[syms[k]], size[syms[k]])])
        shstrtab == <<0>> \o DOT_RODATA \o <<0>> \o DOT_SYMTAB \o <<0>> \o DOT_STRTAB
                    \o <<0>> \o DOT_SHSTRTAB \o <<0>>
        rodata_off == 64
        symtab_off == rodata_off + Len(rodata)
        strtab_off == symtab_off + Len(symtab)
        shstrtab_off == strtab_off + Len(strtab)
        e_shoff == shstrtab_off + Len(shstrtab)
        nm(name, at) == IF name \in named THEN at ELSE 0
        header == ELF_MAGIC \o <<class, 1>> \o Zeros(34) \o P64LE(e_shoff) \o Zeros(10)
                  \o P16LE(SHDR_STRUCT_SIZE) \o P16LE(5) \o P16LE(4)
    IN  header \o rodata \o symtab \o strtab \o shstrtab
        \o ElfShdr(0, 0, 0, 0)
        \o ElfShdr(1, addr, rodata_off, Len(rodata))
        \o ElfShdr(nm(DOT_SYMTAB, 9), 0, symtab_off, Len(symtab))
        \o ElfShdr(nm(DOT_STRTAB, 17), 0, strtab_off, Len(strtab))
        \o ElfShdr(25, 0, shstrtab_off, Len(shstrtab))

AllSymbols == [struct |-> 1, names |-> 1, datas |-> 1]

\* A name padded with NUL bytes to the 16 bytes of a Mach-O name field
Name16(name) == name \o Zeros(16 - Len(name))

\* One section_64 header (80 bytes): sectname, segname, addr, size, offset
MachoSection(sectname, segname, size, offset) ==
    Name16(sectname) \o Name16(segname) \o Zeros(8) \o P64LE(size) \o P32LE(offset)
    \o Zeros(28)

\* One LC_SEGMENT_64 load command (72 bytes and its section headers) with
\* the cmdsize and nsects fields as given
MachoSegment(cmdsize, segname, nsects, sections) ==
    P32LE(LC_SEGMENT_64) \o P32LE(cmdsize) \o Name16(segname) \o Zeros(40)
    \o P32LE(nsects) \o P32LE(0) \o sections

\* A load command of another kind (LC_UUID, 24 bytes)
MachoOther == P32LE(27) \o P32LE(24) \o Zeros(16)

\* A Mach-O 64 image: the 32-byte header with ncmds, then the command bytes
MachoImage(ncmds, commands, payload) ==
    MACHO_MAGIC \o Zeros(12) \o P32LE(ncmds) \o Zeros(12) \o commands \o payload

SEG_DATA == T(<<"_", "_", "D", "A", "T", "A">>)
SECT_TEXT == T(<<"_", "_", "t", "e", "x", "t">>)

\* An image of two load commands, LC_UUID and a segment named segname that
\* declares nsects sections and holds two, __text and one named sectname
\* that places section (at offset 288, behind the commands); the header
\* declares ncmds commands.
MachoWith(ncmds, segname, nsects, sectname, section) ==
    MachoImage(ncmds,
               MachoOther \o
               MachoSegment(232, segname, nsects,
                            MachoSection(SECT_TEXT, segname, 0, 0) \o
                            MachoSection(sectname, segname, Len(section), 288)),
               section)

\* The well-formed image around a section
MachoAround(section) == MachoWith(2, SEG_TEXT, 2, SECT_CONST, section)

\* ------------------------------------------------------------------------
\* The run of extract_firmware as a state machine
\* ------------------------------------------------------------------------

VARIABLES
    pc,             \* the position of the run
    data,           \* the bytes read from the image (line 485)
    const_section,  \* what find_macho_const_section returned (line 493)
    const_data,     \* line 500
    anchors,        \* what _find_qt_anchors returned (line 502)
    resources,      \* the dict handed to _write_firmware_files
    i,              \* the position of the writer's loop in the sorted items
    w,              \* the writer: exception state, files on disk, extracted
    extracted,      \* the value the strategy returned (lines 490 and 507)
    diags,          \* the diagnostics printed so far
    result,         \* what extract_firmware returned, or the exception
    calls,          \* the functions the run has entered
    hexdata,        \* the argument of _maybe_intel_hex_to_blob
    hexout,         \* and its outcome
    pairs,          \* the (path, bytes) pairs injected into a container
    walked,         \* what _elf_read_qt_resources made of that container
    nodes,          \* a container handed to both strategies
    symbol_run,     \* the outcome of the symbol strategy on it
    anchor_run,     \* the outcome of the anchor strategy on it
    stdin,          \* the lines the server's loop is given (mcp_server.py line 495)
    lineno,         \* how many of them the loop has read
    stdout,         \* the response lines written so far
    main,           \* the loop: running, returned, or the exception that left it
    raised          \* per line read, whether a tool handler raised

vars == <<pc, data, const_section, const_data, anchors, resources, i, w, extracted, diags,
          result, calls, hexdata, hexout, pairs, walked, nodes, symbol_run, anchor_run,
          stdin, lineno, stdout, main, raised>>

run_vars == <<pc, data, const_section, const_data, anchors, resources, i, w, extracted,
              diags, result, calls>>
hex_vars == <<hexdata, hexout>>
walk_vars == <<pairs, walked>>
equiv_vars == <<nodes, symbol_run, anchor_run>>
server_vars == <<stdin, lineno, stdout, main, raised>>

NOT_SUPPORTED == "ERROR: Not a supported binary (expected Linux ELF or macOS Mach-O)"
NO_FIRMWARE == "ERROR: No firmware files found in Qt resource tree."
NO_SYMTAB == "ERROR parsing ELF: No .symtab/.strtab in ELF"
NO_SYMBOL == "ERROR locating Qt resource symbols"
WALK_FAILED == "ERROR walking Qt resource tree"
NO_ANCHOR == {"ERROR: names", "ERROR: data", "ERROR: tree"}

NoSection == [st |-> "none", found |-> FALSE, file_off |-> 0, size |-> 0]
NoAnchors == AnchorFail("none", "")
NotReturned == [kind |-> "none", names |-> <<>>]
NoRun == [st |-> "none", files |-> NoFiles]

\* The state before the run has read anything but the image
RunIdle ==
    /\ const_section = NoSection
    /\ const_data = <<>>
    /\ anchors = NoAnchors
    /\ resources = EmptyResources
    /\ i = 1
    /\ w = WriteStart
    /\ extracted = NotReturned
    /\ diags = {}
    /\ result = "none"
    /\ calls = {}
HexIdle == hexdata = <<>> /\ hexout = [st |-> "none", blob |-> <<>>]
WalkIdle == pairs = {} /\ walked = [ok |-> FALSE, resources |-> EmptyResources]
EquivIdle == nodes = <<>> /\ symbol_run = NoRun /\ anchor_run = NoRun
ServerIdle ==
    stdin = <<>> /\ lineno = 0 /\ stdout = <<>> /\ main = "none" /\ raised = <<>>

\* An exception leaves extract_firmware
Crash(st) == pc' = "done" /\ result' = st

\* Lines 493-500: the image is no ELF
MachoLooked(found) ==
    /\ calls' = calls \cup {"_is_elf", "find_macho_const_section"}
    /\ const_section' = found
    /\ IF found.st # "ok"
       THEN Crash(found.st) /\ UNCHANGED <<const_data, diags>>
       ELSE IF ~found.found
       THEN /\ diags' = diags \cup {NOT_SUPPORTED}
            /\ pc' = "done"
            /\ result' = "False"
            /\ UNCHANGED const_data
       ELSE /\ const_data' = SliceLen(data, found.file_off, found.size)
            /\ pc' = "_find_qt_anchors"
            /\ UNCHANGED <<diags, result>>

\* Lines 484-500: read the image and dispatch on its format
Dispatch ==
    /\ pc = "extract_firmware"
    /\ UNCHANGED <<data, anchors, resources, i, w, extracted>>
    /\ UNCHANGED <<hex_vars, walk_vars, equiv_vars, server_vars>>
    /\ IF _is_elf(data)
       THEN /\ pc' = "extract_from_elf"
            /\ calls' = calls \cup {"_is_elf"}
            /\ UNCHANGED <<const_section, const_data, diags, result>>
       ELSE MachoLooked(find_macho_const_section(data))

\* Line 490 and lines 414-434: the symbol strategy up to the resources dict
ElfReturned(r) ==
    /\ calls' = calls \cup {"extract_from_elf"}
                \cup (IF r.st = "ok" \/ r.diag = WALK_FAILED
                      THEN {"_elf_read_qt_resources"} ELSE {})
    /\ IF r.st = "ok"
       THEN /\ resources' = r.resources
            /\ pc' = "_write_firmware_files"
            /\ UNCHANGED <<extracted, diags, result>>
       ELSE IF r.st = "False"
       THEN /\ diags' = diags \cup {r.diag}
            /\ extracted' = [kind |-> "False", names |-> <<>>]
            /\ pc' = "finish"
            /\ UNCHANGED <<resources, result>>
       ELSE Crash(r.st) /\ UNCHANGED <<resources, extracted, diags>>

ExtractFromElf ==
    /\ pc = "extract_from_elf"
    /\ UNCHANGED <<data, const_section, const_data, anchors, i, w>>
    /\ UNCHANGED <<hex_vars, walk_vars, equiv_vars, server_vars>>
    /\ ElfReturned(_elf_resources(data))

\* Lines 501-506: the anchor search on the __const section
FindQtAnchors ==
    /\ pc = "_find_qt_anchors"
    /\ UNCHANGED <<data, const_section, const_data, resources, i, w, extracted>>
    /\ UNCHANGED <<hex_vars, walk_vars, equiv_vars, server_vars>>
    /\ calls' = calls \cup {"_find_qt_anchors"}
    /\ anchors' = _find_qt_anchors(const_data)
    /\ IF anchors'.st = "ok"
       THEN pc' = "_extract_macho_firmware" /\ UNCHANGED <<diags, result>>
       ELSE IF anchors'.st = "RuntimeError"
       THEN /\ diags' = diags \cup {"ERROR: " \o anchors'.why}
            /\ pc' = "done"
            /\ result' = "False"
       ELSE Crash(anchors'.st) /\ UNCHANGED diags

\* Line 507 and lines 518-553: the two directories found by content
MachoReturned(r) ==
    IF r.st = "ok"
    THEN resources' = r.resources /\ pc' = "_write_firmware_files" /\ UNCHANGED result
    ELSE Crash(r.st) /\ UNCHANGED resources

ExtractMachoFirmware ==
    /\ pc = "_extract_macho_firmware"
    /\ UNCHANGED <<data, const_section, const_data, anchors, i, w, extracted, diags>>
    /\ UNCHANGED <<hex_vars, walk_vars, equiv_vars, server_vars>>
    /\ calls' = calls \cup {"_extract_macho_firmware"}
    /\ MachoReturned(_macho_resources(const_data, anchors.tree_base, anchors.data_base,
                                      anchors.name_by_off))

\* Lines 442-474: one turn of the writer's loop over the sorted items
WriteOne ==
    /\ pc = "_write_firmware_files"
    /\ i <= Cardinality(DOMAIN resources)
    /\ UNCHANGED <<data, const_section, const_data, anchors, resources, extracted, diags>>
    /\ UNCHANGED <<hex_vars, walk_vars, equiv_vars, server_vars>>
    /\ calls' = calls \cup {"_write_firmware_files"}
    /\ LET path == SortedTexts(DOMAIN resources)[i] IN
       w' = _write_one(w, path, resources[path])
    /\ IF w'.st = "ok"
       THEN i' = i + 1 /\ UNCHANGED <<pc, result>>
       ELSE Crash(w'.st) /\ UNCHANGED i

\* Line 476: the loop is over, return extracted
WriteReturn ==
    /\ pc = "_write_firmware_files"
    /\ i > Cardinality(DOMAIN resources)
    /\ UNCHANGED <<data, const_section, const_data, anchors, resources, i, w, diags, result>>
    /\ UNCHANGED <<hex_vars, walk_vars, equiv_vars, server_vars>>
    /\ calls' = calls \cup {"_write_firmware_files"}
    /\ extracted' = [kind |-> "list", names |-> w.extracted]
    /\ pc' = "finish"

\* Lines 509-515: if not extracted
Finish ==
    /\ pc = "finish"
    /\ UNCHANGED <<data, const_section, const_data, anchors, resources, i, w, extracted,
                   calls>>
    /\ UNCHANGED <<hex_vars, walk_vars, equiv_vars, server_vars>>
    /\ pc' = "done"
    /\ IF extracted.names = <<>>
       THEN diags' = diags \cup {NO_FIRMWARE} /\ result' = "False"
       ELSE result' = "True" /\ UNCHANGED diags

\* ------------------------------------------------------------------------
\* The images the run is started on
\* ------------------------------------------------------------------------

FWFPGA == T(<<"f", "w", "f", "p", "g", "a">>)
FW01A1 == T(<<"f", "w", "0", "1", "A", "1">>)
FW01A2 == T(<<"f", "w", "0", "1", "A", "2">>)
FW9 == T(<<"f", "w", "9">>)
LA1016 == T(<<"L", "A", "1", "0", "1", "6">>)
LA2016 == T(<<"L", "A", "2", "0", "1", "6">>)
LA5016 == T(<<"L", "A", "5", "0", "1", "6">>)
LA9 == T(<<"L", "A", "9">>)

\* ":0300300002337A1E\n:00000001FF": three bytes 02 33 7A at address 0x30
HexText ==
    T(<<":", "0", "3", "0", "0", "3", "0", "0", "0", "0", "2", "3", "3", "7", "A", "1", "E">>)
    \o <<NEWLINE>> \o T(<<":", "0", "0", "0", "0", "0", "0", "0", "1", "F", "F">>)

\* A container with the root, the directories fwusb and fwfpga, and their
\* leaves (two sequences of file nodes)
Container(usb, fpga) ==
    <<DirNode(<<>>, 2, 1), DirNode(FWUSB, Len(usb), 3),
      DirNode(FWFPGA, Len(fpga), 3 + Len(usb))>> \o usb \o fpga

\* A blob of n bytes of value v, and the stored form of a compressed leaf
\* (the 4-byte length, then the zlib stream)
Blob(v, n) == Fill(n, v)
Compressed(blob) == P32BE(Len(blob)) \o ZlibStore(blob)

\* The small containers of the ELF images
ElfContainers ==
    { Container(<<FileNode(FW01A2, 0, HexText)>>, <<FileNode(LA1016, 0, Blob(7, MIN_BITSTREAM))>>),
      Container(<<>>, <<>>),
      Container(<<FileNode(FW01A2, FLAG_COMPRESSED, Compressed(HexText))>>, <<>>),
      Container(<<FileNode(FW01A2, FLAG_COMPRESSED, HexText)>>,
                <<FileNode(LA1016, 0, Blob(7, MIN_BITSTREAM))>>),
      <<DirNode(<<>>, 1, 0)>> }

\* The symbols .symtab may hold, the section names the header table may
\* give
SymbolChoices ==
    { <<"struct", "names", "datas">>, <<"names", "datas">>, <<"struct", "datas">>,
      <<"struct", "names">>, <<"struct">>, <<>> }
NamedChoices == SUBSET {DOT_SYMTAB, DOT_STRTAB}

ElfOf(c, syms, named, class, shndx) ==
    ElfImage(BuildTree(c), BuildNames(c), BuildDatas(c), syms, named, class, shndx)

GoodElf ==
    ElfOf(Container(<<FileNode(FW01A2, 0, HexText)>>, <<>>), SymKeys,
          {DOT_SYMTAB, DOT_STRTAB}, ELFCLASS64, AllSymbols)

\* Cut lengths: inside the magic, the header, the sections, the header table
MaxCuts == 6
ElfCut(k) == IF k = 0 THEN 4 ELSE IF k = 1 THEN 5 ELSE IF k = 2 THEN 47
             ELSE Len(GoodElf) - 64 * (k - 2) - 1

ElfImages ==
    { ElfOf(c, syms, named, ELFCLASS64, AllSymbols) :
        c \in ElfContainers, syms \in SymbolChoices, named \in NamedChoices }
    \cup { ElfOf(c, SymKeys, {DOT_SYMTAB, DOT_STRTAB}, 1, AllSymbols) : c \in ElfContainers }
    \* qt_resource_struct as an absolute symbol (st_shndx SHN_ABS, 0xFFF1)
    \cup { ElfOf(Container(<<>>, <<>>), syms, {DOT_SYMTAB, DOT_STRTAB}, ELFCLASS64,
                 [AllSymbols EXCEPT !.struct = 65521]) : syms \in SymbolChoices }
    \cup { Slice(GoodElf, 0, ElfCut(k)) : k \in 0..MaxCuts }

\* Five leaves of MIN_BLOB bytes each, the run the data search looks for
UsbLeaves(second) ==
    <<FileNode(FW01A2, 0, Blob(1, MIN_BLOB)), FileNode(second, 0, Blob(2, MIN_BLOB))>>
FpgaLeaves(second) ==
    <<FileNode(LA1016, 0, Blob(3, MIN_BLOB)), FileNode(second, 0, Blob(4, MIN_BLOB)),
      FileNode(LA5016, 0, Blob(5, MIN_BLOB))>>

SectionLead == <<255, 255>>

\* Sections of a __const: without the fwusb name, with the name and no
\* data, with a blob run that leads past the end, with the name's characters
\* at the very start, with names and data and no tree, and whole containers.
Sections ==
    { <<>>, Zeros(40), fwusb_needle, fwusb_chars,
      fwusb_needle \o P32BE(MIN_BLOB) \o Zeros(8),
      BuildNames(Container(UsbLeaves(FW01A1), FpgaLeaves(LA2016)))
        \o BuildDatas(Container(UsbLeaves(FW01A1), FpgaLeaves(LA2016))),
      BuildSection(SectionLead, Container(UsbLeaves(FW01A1), FpgaLeaves(LA2016))),
      BuildSection(SectionLead, Container(UsbLeaves(FW9), FpgaLeaves(LA9))),
      BuildSection(SectionLead, Container(<<>>, <<>>))
        \o BuildDatas(Container(UsbLeaves(FW01A1), FpgaLeaves(LA2016))) }

\* The counts a Mach-O header and a segment may declare
MaxCmds == 3
MaxSects == 3
MaxMachoCut == 8
GoodMacho == MachoAround(fwusb_needle)

MachoImages ==
    { MachoAround(section) : section \in Sections }
    \cup { MachoWith(ncmds, segname, nsects, sectname, payload) :
             ncmds \in 0..MaxCmds, segname \in {SEG_TEXT, SEG_DATA},
             nsects \in 0..MaxSects, sectname \in {SECT_CONST, SECT_TEXT},
             payload \in {<<>>, fwusb_needle} }
    \cup { Slice(GoodMacho, 0, 40 * k + 4) : k \in 0..MaxMachoCut }

\* Images of neither format: empty, short, the 32-bit Mach-O magic, text
OtherImages ==
    { <<>>, <<127>>, <<127, 69, 76>>, <<207, 250, 237>>, Zeros(64),
      <<206, 250, 237, 254>> \o Zeros(60), <<254, 237, 250, 207>> \o Zeros(60),
      HexText }

Images == ElfImages \cup MachoImages \cup OtherImages

Init ==
    /\ pc = "extract_firmware"
    /\ data \in Images
    /\ RunIdle /\ HexIdle /\ WalkIdle /\ EquivIdle /\ ServerIdle

Next ==
    \/ Dispatch
    \/ ExtractFromElf
    \/ FindQtAnchors
    \/ ExtractMachoFirmware
    \/ WriteOne
    \/ WriteReturn
    \/ Finish

Spec == Init /\ [][Next]_vars

\* ------------------------------------------------------------------------
\* _write_firmware_files on its own, over resource dicts
\* ------------------------------------------------------------------------

FW01a2 == T(<<"f", "w", "0", "1", "a", "2">>)
FW03A1 == T(<<"f", "w", "0", "3", "A", "1">>)
Path(dir, leaf) == dir \o <<SLASH>> \o leaf

\* The stored form of a compressed leaf with the last byte of the stream
\* cut off: zlib.decompress raises on it
Truncated(blob) == SubSeq(Compressed(blob), 1, Len(Compressed(blob)) - 1)

\* A blob that starts with FF FF and holds a whole zlib stream from offset 4
RAW_MARK == <<255, 255>>
RawMarked(blob) == RAW_MARK \o <<0, 0>> \o ZlibStore(blob)
LA5032A0 == T(<<"L", "A", "5", "0", "3", "2", "A", "0">>)

Item(path, raw, compressed) == [path |-> path, raw |-> raw, compressed |-> compressed]

\* The items a dict is made of: MCU firmware as Intel HEX text and as raw
\* bytes, under two spellings of one stem and under a prefix; bitstreams
\* raw, deflated, with a broken stream and with FF FF before a whole
\* stream; leaves with the compressed flag whose stream is whole and broken;
\* a bitstream under a name the registry does not hold, and a leaf fw01A2 in
\* a directory xfwusb.
WriteItems ==
    { Item(Path(FWUSB, FW01A2), HexText, FALSE),
      Item(Path(FWUSB, FW01a2), <<1, 2, 3>>, FALSE),
      Item(Path(<<97>>, Path(FWUSB, FW01A2)), <<4, 5>>, FALSE),
      Item(Path(FWFPGA, LA1016), Blob(7, MIN_BITSTREAM), FALSE),
      Item(Path(FWFPGA, LA2016), Compressed(Blob(8, MIN_BITSTREAM)), FALSE),
      Item(Path(FWFPGA, LA5016), Truncated(Blob(9, MIN_BITSTREAM)), FALSE),
      Item(Path(FWFPGA, LA5032A0), RawMarked(Blob(6, MIN_BITSTREAM)), FALSE),
      Item(Path(FWUSB, FW03A1), Truncated(HexText), TRUE),
      Item(Path(FWUSB, FW01A1), Compressed(HexText), TRUE),
      Item(Path(FWFPGA, LA9), Blob(10, MIN_BITSTREAM), FALSE),
      Item(Path(<<120>> \o FWUSB, FW01A2), <<6, 7>>, FALSE) }

MaxItems == 3

DictOf(items) ==
    [path \in {it.path : it \in items} |->
       LET it == CHOOSE x \in items : x.path = path
       IN  [raw |-> it.raw, compressed |-> it.compressed]]

ResourceDicts == { DictOf(items) : items \in {s \in SUBSET WriteItems : Cardinality(s) <= MaxItems} }

InitWrite ==
    /\ pc = "_write_firmware_files"
    /\ data = <<>>
    /\ const_section = NoSection
    /\ const_data = <<>>
    /\ anchors = NoAnchors
    /\ resources \in ResourceDicts
    /\ i = 1
    /\ w = WriteStart
    /\ extracted = NotReturned
    /\ diags = {}
    /\ result = "none"
    /\ calls = {}
    /\ HexIdle /\ WalkIdle /\ EquivIdle /\ ServerIdle

NextWrite == WriteOne \/ WriteReturn

SpecWrite == InitWrite /\ [][NextWrite]_vars

\* ------------------------------------------------------------------------
\* _maybe_intel_hex_to_blob on its own, over texts of a few lines
\* ------------------------------------------------------------------------

\* Lines a text is made of: an end-of-file record, two data records, a
\* record of another type, a data record of no bytes, lines too short for
\* the 4-byte header, a line that is no hex, a line without colon, a byte
\* that is no ASCII; then a data record at the address of the first one with
\* another byte, one of three bytes at address 0 and one of one byte at
\* address 1.
HexLines ==
    << T(<<":", "0", "0", "0", "0", "0", "0", "0", "1", "F", "F">>),
       T(<<":", "0", "1", "0", "0", "0", "0", "0", "0", "5", "5", "A", "A">>),
       T(<<":", "0", "2", "0", "0", "0", "2", "0", "0", "4", "1", "4", "2", "7", "9">>),
       T(<<":", "0", "2", "0", "0", "0", "0", "0", "4", "0", "0", "0", "0", "F", "A">>),
       T(<<":", "0", "0", "0", "0", "0", "0", "0", "0">>),
       T(<<":", "0", "0">>),
       <<COLON>>,
       T(<<":", "z", "z">>),
       T(<<"h", "e", "x">>),
       <<200>>,
       T(<<":", "0", "1", "0", "0", "0", "0", "0", "0", "7", "7", "8", "8">>),
       T(<<":", "0", "3", "0", "0", "0", "0", "0", "0", "1", "1", "1", "2", "1", "3", "C", "7">>),
       T(<<":", "0", "1", "0", "0", "0", "1", "0", "0", "A", "A", "5", "4">>) >>

MaxLines == 3

RECURSIVE JoinLines(_)
JoinLines(ls) ==
    IF ls = <<>> THEN <<>>
    ELSE IF Len(ls) = 1 THEN HexLines[ls[1]]
    ELSE HexLines[Head(ls)] \o <<NEWLINE>> \o JoinLines(Tail(ls))

HexTexts ==
    { JoinLines(ls) : ls \in UNION { [1..n -> 1..Len(HexLines)] : n \in 0..MaxLines } }

InitHex ==
    /\ pc = "_maybe_intel_hex_to_blob"
    /\ data = <<>>
    /\ RunIdle /\ WalkIdle /\ EquivIdle /\ ServerIdle
    /\ hexdata \in HexTexts
    /\ hexout = [st |-> "none", blob |-> <<>>]

\* Lines 280-284
MaybeIntelHex ==
    /\ pc = "_maybe_intel_hex_to_blob"
    /\ pc' = "done"
    /\ hexout' = _maybe_intel_hex_to_blob(hexdata)
    /\ UNCHANGED <<data, const_section, const_data, anchors, resources, i, w, extracted,
                   diags, result, calls, hexdata>>
    /\ UNCHANGED <<walk_vars, equiv_vars, server_vars>>

NextHex == MaybeIntelHex

SpecHex == InitHex /\ [][NextHex]_vars

\* ------------------------------------------------------------------------
\* _elf_read_qt_resources on its own, over containers built from
\* (path, bytes) pairs
\* ------------------------------------------------------------------------

SlashAt(text) == {k \in 1..Len(text) : text[k] = SLASH}
Depth(text) == IF text = <<>> THEN 0 ELSE Cardinality(SlashAt(text)) + 1
Parent(text) ==
    IF SlashAt(text) = {} THEN <<>> ELSE SubSeq(text, 1, SetMax(SlashAt(text)) - 1)
Leaf(text) ==
    IF SlashAt(text) = {} THEN text ELSE SubSeq(text, SetMax(SlashAt(text)) + 1, Len(text))

\* The directories above a set of paths, the root (the empty text) included
Dirs(paths) == {<<>>} \cup UNION { {SubSeq(p, 1, k - 1) : k \in SlashAt(p)} : p \in paths }

MaxDepth == 2
MaxFiles == 2

\* The table order of rcc: level by level, the entries of one directory
\* side by side and in the order of their names
TableOrder(entries) ==
    Flatten([d \in 1..(MaxDepth + 1) |-> SortedTexts({n \in entries : Depth(n) = d - 1})])

\* The node list of the container that holds exactly the given pairs
NodesIn(order, files) ==
    [k \in 1..Len(order) |->
       IF order[k] \in DOMAIN files
       THEN FileNode(Leaf(order[k]), 0, files[order[k]])
       ELSE LET kids == {c \in 1..Len(order) : order[c] # <<>> /\ Parent(order[c]) = order[k]}
            IN  DirNode(Leaf(order[k]), Cardinality(kids),
                        IF kids = {} THEN 0 ELSE SetMin(kids) - 1)]

FilesOf(ps) == [path \in {p[1] : p \in ps} |-> (CHOOSE p \in ps : p[1] = path)[2]]
ContainerOf(ps) ==
    NodesIn(TableOrder(Dirs({p[1] : p \in ps}) \cup {p[1] : p \in ps}), FilesOf(ps))

\* Paths of at most MaxDepth segments over two names, and three blobs
SegmentNames == {<<97>>, FWUSB}
RECURSIVE PathsOfDepth(_)
PathsOfDepth(d) ==
    IF d = 1 THEN SegmentNames
    ELSE {Path(dir, leaf) : dir \in PathsOfDepth(d - 1), leaf \in SegmentNames}
AllPaths == UNION {PathsOfDepth(d) : d \in 1..MaxDepth}
WalkBlobs == {<<>>, <<1>>, HexText}
AllPairs == AllPaths \X WalkBlobs

\* Pairwise distinct paths, none of them a directory of another
WellFormed(ps) ==
    /\ \A p, q \in ps : p[1] = q[1] => p = q
    /\ \A p \in ps : p[1] \notin Dirs({q[1] : q \in ps})

PairSets ==
    { ps \in UNION { { {f[k] : k \in 1..n} : f \in [1..n -> AllPairs] } : n \in 0..MaxFiles } :
        WellFormed(ps) }

InitWalk ==
    /\ pc = "_elf_read_qt_resources"
    /\ data = <<>>
    /\ RunIdle /\ HexIdle /\ EquivIdle /\ ServerIdle
    /\ pairs \in PairSets
    /\ walked = [ok |-> FALSE, resources |-> EmptyResources]

WalkOver(c) == walked' = _elf_read_qt_resources(BuildTree(c), BuildNames(c), BuildDatas(c))

\* Lines 373-411 on the three regions of the container
Walk ==
    /\ pc = "_elf_read_qt_resources"
    /\ pc' = "done"
    /\ WalkOver(ContainerOf(pairs))
    /\ UNCHANGED <<data, const_section, const_data, anchors, resources, i, w, extracted,
                   diags, result, calls, pairs>>
    /\ UNCHANGED <<hex_vars, equiv_vars, server_vars>>

NextWalk == Walk

SpecWalk == InitWalk /\ [][NextWalk]_vars

\* ------------------------------------------------------------------------
\* The two strategies on one container
\* ------------------------------------------------------------------------

\* Lines 507 and 518-554 with the anchors found: the files the anchor
\* strategy writes
_anchor_written(wr) == [st |-> wr.st, files |-> wr.files]
_anchor_resources(r) ==
    IF r.st # "ok" THEN [st |-> r.st, files |-> NoFiles]
    ELSE _anchor_written(_write_firmware_files(r.resources))
_anchor_found(section, a) ==
    IF a.st # "ok" THEN [st |-> a.st, files |-> NoFiles]
    ELSE _anchor_resources(_macho_resources(section, a.tree_base, a.data_base,
                                            a.name_by_off))

\* Lines 501-507: _find_qt_anchors, then _extract_macho_firmware
_anchor_strategy(section) == _anchor_found(section, _find_qt_anchors(section))

\* Line 490: extract_from_elf, as the files it writes
_symbol_outcome(r) == [st |-> r.st, files |-> r.w.files]
_symbol_strategy(image) == _symbol_outcome(extract_from_elf(image))

X == <<120>>
MS6218 == T(<<"M", "S", "6", "2", "1", "8">>)

\* Containers both strategies can read: the names region starts with the
\* root's empty name, so that the name offsets of the tree mean the same to
\* both readers; the first five blobs are MIN_BLOB bytes long.  They vary in
\* the first MCU leaf (plain or with the compressed flag), in the name of the
\* second MCU leaf, in the name of the second bitstream, and in a sixth leaf.
FirstUsb == { FileNode(FW01A2, 0, Blob(1, MIN_BLOB)),
              FileNode(FW01A2, FLAG_COMPRESSED, Compressed(Blob(1, MIN_BLOB))) }
SecondUsb == {FW01A1, FW9, X}
SecondFpga == {LA2016, LA9, FW9}
SixthLeaf == { <<>>, <<FileNode(MS6218, 0, Blob(6, MIN_BITSTREAM - 1))>>,
               <<FileNode(MS6218, 0, Blob(6, MIN_BITSTREAM))>>,
               <<FileNode(X, 0, Blob(6, MIN_BITSTREAM))>> }

EquivContainers ==
    { Container(<<first, FileNode(second, 0, Blob(2, MIN_BLOB))>>,
                FpgaLeaves(model) \o sixth) :
        first \in FirstUsb, second \in SecondUsb, model \in SecondFpga, sixth \in SixthLeaf }

InitEquiv ==
    /\ pc = "strategies"
    /\ data = <<>>
    /\ RunIdle /\ HexIdle /\ WalkIdle /\ ServerIdle
    /\ nodes \in EquivContainers
    /\ symbol_run = NoRun
    /\ anchor_run = NoRun

\* The container in an ELF image with its three symbols
RunSymbol ==
    /\ pc = "strategies"
    /\ symbol_run = NoRun
    /\ symbol_run' = _symbol_strategy(ElfOf(nodes, SymKeys, {DOT_SYMTAB, DOT_STRTAB},
                                            ELFCLASS64, AllSymbols))
    /\ pc' = IF anchor_run = NoRun THEN pc ELSE "done"
    /\ UNCHANGED <<data, const_section, const_data, anchors, resources, i, w, extracted,
                   diags, result, calls, nodes, anchor_run>>
    /\ UNCHANGED <<hex_vars, walk_vars, server_vars>>

\* The same container in the __const section of a Mach-O image
RunAnchor ==
    /\ pc = "strategies"
    /\ anchor_run = NoRun
    /\ anchor_run' = _anchor_strategy(BuildSection(SectionLead, nodes))
    /\ pc' = IF symbol_run = NoRun THEN pc ELSE "done"
    /\ UNCHANGED <<data, const_section, const_data, anchors, resources, i, w, extracted,
                   diags, result, calls, nodes, symbol_run>>
    /\ UNCHANGED <<hex_vars, walk_vars, server_vars>>

NextEquiv == RunSymbol \/ RunAnchor

SpecEquiv == InitEquiv /\ [][NextEquiv]_vars

\* ------------------------------------------------------------------------
\* Properties
\* ------------------------------------------------------------------------

\* C1: on a container that both strategies read to the end, the symbol
\* strategy and the anchor strategy write the same files: the same names,
\* each with the same bytes.
StrategiesAgree ==
    (pc = "done" /\ symbol_run.st = "ok" /\ anchor_run.st = "ok")
        => symbol_run.files = anchor_run.files

\* C2: the anchor search ends by returning the anchors or by raising the
\* RuntimeError that extract_firmware catches; it ends in no other way.
AnchorsOrNotFound ==
    "_find_qt_anchors" \in calls => anchors.st \in {"ok", "RuntimeError"}

IsMacho(image) == Slice(image, 0, 4) = MACHO_MAGIC

\* C3: on a buffer that starts with the Mach-O 64 magic the lookup of
\* __TEXT,__const returns an (offset, size) or the not-found outcome; it
\* raises nothing.
ConstLookupReturns ==
    (IsMacho(data) /\ "find_macho_const_section" \in calls) => const_section.st = "ok"

MACHO_STAGES == {"find_macho_const_section", "_find_qt_anchors", "_extract_macho_firmware"}
STAGES == {"extract_from_elf", "_elf_read_qt_resources", "_find_qt_anchors",
           "_extract_macho_firmware", "_write_firmware_files"}

\* C4: when the run is over, an image with the ELF magic has been through
\* the symbol strategy and no Mach-O stage; an image with the Mach-O magic has
\* been through the Mach-O lookup, not through the symbol strategy, and has
\* not been reported as an unsupported format; any other image has been
\* reported as unsupported, the run returned False, no locator, walk or writer
\* ran, and no file was written.
DispatchByMagic ==
    pc = "done" =>
        IF _is_elf(data)
        THEN "extract_from_elf" \in calls /\ calls \cap MACHO_STAGES = {}
        ELSE IF IsMacho(data)
        THEN /\ "find_macho_const_section" \in calls
             /\ "extract_from_elf" \notin calls
             /\ NOT_SUPPORTED \notin diags
        ELSE /\ NOT_SUPPORTED \in diags
             /\ result = "False"
             /\ calls \cap STAGES = {}
             /\ w.files = NoFiles

STRUCTURAL == {NOT_SUPPORTED, NO_SYMTAB, NO_SYMBOL} \cup NO_ANCHOR

\* C5: the diagnostic of no firmware found is printed only in a run that
\* located the container and went through the whole set of resources, and
\* never next to the diagnostic of an unsupported format, of a missing symbol
\* or symbol table, or of a missing anchor.
NoFirmwareOnlyAfterWalk ==
    NO_FIRMWARE \in diags =>
        /\ "_write_firmware_files" \in calls
        /\ diags \cap STRUCTURAL = {}

\* zlib.decompress raises on the resource: a leaf with the compressed flag,
\* or a resource under fwfpga/ with a zlib signature at offset 4
IsFpgaPath(path) ==
    /\ ~StartsWith(_path_tail(path, FWUSB_SLASH), FWUSB_FW)
    /\ StartsWith(_path_tail(path, FWFPGA_SLASH), FWFPGA_SLASH)
InflateRaises(path, item, z) ==
    /\ ~z.ok
    /\ \/ item.compressed
       \/ IsFpgaPath(path) /\ Len(item.raw) > 4 /\ Slice(item.raw, 4, 6) \in ZLIB_SIGNATURES
InflateFails(path) ==
    InflateRaises(path, resources[path], zlib_decompress(SliceFrom(resources[path].raw, 4)))

\* What the loop's body does with one resource when nothing was written yet
Alone(path) == _write_one(WriteStart, path, resources[path])
SkippedOrWritten(path, alone) ==
    IF InflateFails(path) THEN alone = WriteStart
    ELSE \A name \in DOMAIN alone.files : name \in DOMAIN w.files

\* C6: when the writer is through, a resource whose inflation failed was
\* passed over, with no file and no exception, and every file that any other
\* resource of the dict gives rise to has been written.
InflateFailureSkipsOne ==
    pc \in {"finish", "done"} =>
        \A path \in DOMAIN resources : SkippedOrWritten(path, Alone(path))

REQUIRED_SYMBOLS == {_ELF_SYM_STRUCT, _ELF_SYM_NAMES, _ELF_SYM_DATAS}

\* The symbol table of the image lacks what the symbol strategy needs
SymbolsAbsent(elf) ==
    \/ elf.st = "RuntimeError" /\ elf.why = "No .symtab/.strtab in ELF"
    \/ elf.st = "ok" /\ \E name \in REQUIRED_SYMBOLS : name \notin DOMAIN elf.syms

\* C7: a run on an ELF image without a section named .symtab or .strtab, or
\* without one of the three symbols, returns False with the diagnostic of the
\* missing table or symbol, walks no tree and writes no file.
MissingSymbolFails ==
    (pc = "done" /\ _is_elf(data) /\ SymbolsAbsent(_parse_elf_symtab(data))) =>
        /\ result = "False"
        /\ diags \cap {NO_SYMTAB, NO_SYMBOL} # {}
        /\ "_elf_read_qt_resources" \notin calls
        /\ w.files = NoFiles

\* C8: the writer never appends one filename twice, that is, no two
\* resources of one dict are written to the same file.
FilenamesUnique ==
    \A j, k \in DOMAIN w.extracted : j # k => w.extracted[j] # w.extracted[k]

WalkedPairs == {<<path, walked.resources[path].raw>> : path \in DOMAIN walked.resources}

\* C9: the walk over the tree, names and data regions of a container built
\* from a set of (path, bytes) pairs with pairwise distinct paths returns a
\* dict whose (path, bytes) pairs are exactly the pairs the container was
\* built from.
WalkRoundTrip ==
    pc = "done" => walked.ok /\ WalkedPairs = pairs

\* Two files were injected, one of them in a directory, and the walk has
\* returned both
WalkRoundTripWitness ==
    /\ pc = "done"
    /\ Cardinality(pairs) = 2
    /\ \E p \in pairs : Depth(p[1]) >= 2 /\ p[2] # <<>>
    /\ walked.ok
    /\ Cardinality(DOMAIN walked.resources) = 2

\* The records of an Intel HEX text: a line that is ':' and an even number
\* of hex digits for at least the 4-byte header
HexRecord(line) == Unhex(SubSeq(Strip(line), 2, Len(Strip(line))))
IsHexRecord(line, record) ==
    /\ Strip(line) # <<>> /\ Strip(line)[1] = COLON
    /\ record.ok /\ Len(record.bytes) >= 4
IsDataRecord(line, record) ==
    IsHexRecord(line, record) /\ record.bytes[4] = 0 /\ record.bytes[1] > 0
IsEofRecord(line, record) ==
    IsHexRecord(line, record) /\ record.bytes[4] = 1
NoDataBeforeEof(lines) ==
    \A k \in 1..Len(lines) :
        IsDataRecord(lines[k], HexRecord(lines[k]))
            => \E j \in 1..(k - 1) : IsEofRecord(lines[j], HexRecord(lines[j]))

PassedThrough(d) ==
    \/ d = <<>>
    \/ d[1] # COLON
    \/ \E k \in 1..Len(d) : d[k] >= 128
    \/ NoDataBeforeEof(SplitLines(d))

\* C10: an input that is empty, or does not start with ':', or holds a byte
\* of 128 or more, or has no data record before its first end-of-file record,
\* comes back from _maybe_intel_hex_to_blob unchanged.
HexIdentity ==
    (pc = "done" /\ PassedThrough(hexdata)) => hexout.st = "ok" /\ hexout.blob = hexdata

\* A well-formed record line: byte count, address, type, that many data
\* bytes and a checksum byte.  A blank line is no record.
HexLineValid(line, record) ==
    \/ Strip(line) = <<>>
    \/ IsHexRecord(line, record) /\ Len(record.bytes) = 5 + record.bytes[1]
HexValid(lines) == \A k \in 1..Len(lines) : HexLineValid(lines[k], HexRecord(lines[k]))

\* The lines of the data records before the first end-of-file record
FirstEof(lines) ==
    SetMin({k \in 1..Len(lines) : IsEofRecord(lines[k], HexRecord(lines[k]))}
           \cup {Len(lines) + 1})
DataLines(lines) ==
    {k \in 1..(FirstEof(lines) - 1) : IsDataRecord(lines[k], HexRecord(lines[k]))}
RecordAddress(line) == HexRecord(line).bytes[2] * 256 + HexRecord(line).bytes[3]
RecordLength(line) == HexRecord(line).bytes[1]
RecordByte(line, o) == HexRecord(line).bytes[5 + o - RecordAddress(line)]
RecordEnd(line) == RecordAddress(line) + RecordLength(line)
Covers(line, o) == RecordAddress(line) <= o /\ o < RecordEnd(line)

NonOverlapping(lines) ==
    \A j, k \in DataLines(lines) :
        j # k => RecordEnd(lines[j]) <= RecordAddress(lines[k])
                 \/ RecordEnd(lines[k]) <= RecordAddress(lines[j])

SpanEnd(lines) == SetMax({RecordEnd(lines[k]) : k \in DataLines(lines)})

\* The image holds each record's bytes at its address and zero elsewhere
ImageOf(lines, blob) ==
    /\ Len(blob) = SpanEnd(lines)
    /\ \A o \in 0..(SpanEnd(lines) - 1) :
          IF \E k \in DataLines(lines) : Covers(lines[k], o)
          THEN \A k \in DataLines(lines) : Covers(lines[k], o) => blob[o + 1] = RecordByte(lines[k], o)
          ELSE blob[o + 1] = 0

HexPlain(lines) == HexValid(lines) /\ DataLines(lines) # {} /\ NonOverlapping(lines)

\* C11: a valid Intel HEX text whose data records before the first
\* end-of-file record do not overlap decodes to an image as long as the
\* largest address + length, with each record's bytes at its address and zero
\* at every other offset; the records after the end-of-file record leave no
\* trace in it.
HexImageOfRecords ==
    (pc = "done" /\ hexdata # <<>> /\ HexPlain(SplitLines(hexdata)))
        => hexout.st = "ok" /\ ImageOf(SplitLines(hexdata), hexout.blob)

DataAfterEof(lines) ==
    \E k \in (FirstEof(lines) + 1)..Len(lines) : IsDataRecord(lines[k], HexRecord(lines[k]))

\* A record at an address above 0 was decoded before the end-of-file record
\* and another data record follows that record
HexImageOfRecordsWitness ==
    /\ pc = "done"
    /\ hexdata # <<>>
    /\ HexPlain(SplitLines(hexdata))
    /\ \E k \in DataLines(SplitLines(hexdata)) : RecordAddress(SplitLines(hexdata)[k]) > 0
    /\ DataAfterEof(SplitLines(hexdata))
    /\ hexout.st = "ok"
    /\ Len(hexout.blob) > 2

\* What the detection of the specification makes of an FPGA blob whose
\* stream, if it has one, inflates to z
DetectedBitstream(raw, z) ==
    IF Slice(raw, 0, 2) = RAW_MARK THEN raw
    ELSE IF Len(raw) > 4 /\ Slice(raw, 4, 6) \in ZLIB_SIGNATURES THEN z.data
    ELSE raw
Inflates(raw, z) ==
    (Slice(raw, 0, 2) # RAW_MARK /\ Len(raw) > 4 /\ Slice(raw, 4, 6) \in ZLIB_SIGNATURES) => z.ok
BitstreamAsDetected(path, alone) ==
    (IsFpgaPath(path) /\ ~resources[path].compressed
       /\ Inflates(resources[path].raw, zlib_decompress(SliceFrom(resources[path].raw, 4))))
      => \A name \in DOMAIN alone.files :
            /\ name \in DOMAIN w.files
            /\ w.files[name] = DetectedBitstream(resources[path].raw,
                                   zlib_decompress(SliceFrom(resources[path].raw, 4)))

\* C12: when the writer has gone through the dict, the file of an FPGA blob
\* holds the blob itself if the blob starts with FF FF, the inflation of the
\* stream at offset 4 if it does not and has a zlib signature at offsets 4..5,
\* and the blob itself otherwise.
FpgaCompressionDetected ==
    pc = "finish" => \A path \in DOMAIN resources : BitstreamAsDetected(path, Alone(path))

\* ------------------------------------------------------------------------
\* The anchor strategy on its own, over Mach-O images around containers
\* ------------------------------------------------------------------------

AA == T(<<"A", "A">>)
ZZ == T(<<"Z", "Z">>)

\* The bitstream directory with FpgaCount leaves in the order of names, the
\* k-th holding MIN_BLOB bytes of value 2 + k
FpgaCount == 3
FpgaInOrder(names) == [k \in 1..Len(names) |-> FileNode(names[k], 0, Blob(2 + k, MIN_BLOB))]
FpgaNames == {LA1016, LA2016, AA, ZZ, X}
FpgaOrders ==
    {names \in [1..FpgaCount -> FpgaNames] :
        /\ \A j, k \in 1..FpgaCount : j # k => names[j] # names[k]
        /\ \E k \in 1..FpgaCount : names[k] \in _FPGA_MODELS
        /\ \E k \in 1..FpgaCount : names[k] \notin _FPGA_MODELS}

\* The section with gap zero bytes between the tree and the names
BuildSectionGap(lead, c, gap) ==
    lead \o BuildTree(c) \o Zeros(gap) \o BuildNames(c) \o BuildDatas(c)

Canonical == Container(UsbLeaves(FW01A1), FpgaLeaves(LA2016))

\* The names anchor is the fwusb entry, RootToNames bytes after the root
\* record of the canonical container when nothing lies between tree and
\* names.  The gaps put the root record at an odd distance, and 3998, 4000
\* and 4002 bytes before the anchor; the lead puts it at offset 2 or 0.
RootToNames == Len(BuildTree(Canonical)) + 6
TreeGaps ==
    {0, 1, 2, TREE_WINDOW - RootToNames - 2, TREE_WINDOW - RootToNames,
     TREE_WINDOW - RootToNames + 2}
\* The section cut inside its last blob, before it, at the end of the names
\* and inside the last name
DataLength == Len(BuildDatas(Canonical))
SectionCuts == {1, 10, MIN_BLOB + 4, DataLength, DataLength + 2}

\* The section with two bytes between the names and the data that read as a
\* name length above 64
NamesPad == <<1, 0>>
BuildSectionPad(lead, c, pad) ==
    lead \o BuildTree(c) \o BuildNames(c) \o pad \o BuildDatas(c)

\* Sections whose fwusb entry does not carry the known hash, so that the
\* names anchor is the position of the characters minus 6: the container
\* with all hashes zero; the characters 8 bytes into a section without tree;
\* and, after a tree, the characters preceded by 14 bytes that read as a root
\* record, the last 6 of which the anchor takes for the entry's header.
BuildNamesUnhashed(c) ==
    Flatten([k \in 1..Len(c) |-> P16BE(Len(c[k].name)) \o P32BE(0) \o Utf16BE(c[k].name)])
RootLike == P32BE(0) \o P16BE(FLAG_DIR) \o P32BE(3) \o P32BE(1)
FallbackSections ==
    { SectionLead \o BuildTree(Canonical) \o BuildNamesUnhashed(Canonical)
        \o BuildDatas(Canonical),
      Zeros(8) \o fwusb_chars \o BuildDatas(Canonical),
      SectionLead \o BuildTree(Canonical) \o RootLike \o fwusb_chars
        \o BuildDatas(Canonical) }

AnchorCase(c, section) == [nodes |-> c, section |-> section]
AnchorCases ==
    { AnchorCase(Container(UsbLeaves(FW01A1), FpgaInOrder(names)),
                 BuildSection(SectionLead, Container(UsbLeaves(FW01A1), FpgaInOrder(names)))) :
        names \in FpgaOrders }
    \cup { AnchorCase(Canonical, BuildSectionGap(lead, Canonical, gap)) :
             lead \in {<<>>, SectionLead}, gap \in TreeGaps }
    \cup { AnchorCase(Canonical,
                      Slice(BuildSection(SectionLead, Canonical), 0,
                            Len(BuildSection(SectionLead, Canonical)) - cut)) :
             cut \in SectionCuts }
    \cup { AnchorCase(Canonical, BuildSectionPad(SectionLead, Canonical, NamesPad)) }
    \cup { AnchorCase(Canonical, section) : section \in FallbackSections }

InitAnchor ==
    /\ pc = "extract_firmware"
    /\ RunIdle /\ HexIdle /\ WalkIdle /\ ServerIdle
    /\ symbol_run = NoRun
    /\ anchor_run = NoRun
    /\ \E case \in AnchorCases :
          /\ nodes = case.nodes
          /\ data = MachoAround(case.section)

NextAnchor ==
    \/ Dispatch
    \/ FindQtAnchors
    \/ ExtractMachoFirmware
    \/ WriteOne
    \/ WriteReturn
    \/ Finish

SpecAnchor == InitAnchor /\ [][NextAnchor]_vars

\* The children of the bitstream directory in child index order, those of
\* them the registry does not name, and the sorted models none of them names
FpgaChildren(c) == [k \in 1..c[3].child_count |-> c[c[3].first_child + k]]
IsUnresolved(node) == node.name \notin _FPGA_MODELS
UnresolvedInTreeOrder(c) == SelectSeq(FpgaChildren(c), IsUnresolved)
MissingModels(c) ==
    SortedTexts(_FPGA_MODELS \ {FpgaChildren(c)[k].name : k \in 1..Len(FpgaChildren(c))})
WholeSection == const_data = BuildSection(SectionLead, nodes)

\* C13: on a whole section, once the anchor strategy has built its
\* resources, every registry-named child of the bitstream directory keeps its
\* own blob, and the i-th unresolved child in child index order is stored
\* under the i-th of the sorted missing models.
EliminationInTreeOrder ==
    ("_extract_macho_firmware" \in calls /\ pc # "done" /\ WholeSection) =>
        /\ \A k \in 1..Len(FpgaChildren(nodes)) :
              ~IsUnresolved(FpgaChildren(nodes)[k]) =>
                 resources[FWFPGA_SLASH \o FpgaChildren(nodes)[k].name].raw
                    = FpgaChildren(nodes)[k].blob
        /\ \A j \in 1..Len(UnresolvedInTreeOrder(nodes)) :
              resources[FWFPGA_SLASH \o MissingModels(nodes)[j]].raw
                 = UnresolvedInTreeOrder(nodes)[j].blob

EndsWith(s, suffix) ==
    Len(s) >= Len(suffix) /\ SliceFrom(s, Len(s) - Len(suffix)) = suffix
RegistryBitstreams == {KINGST \o Lower(model) \o FPGA_BITSTREAM : model \in _FPGA_MODELS}

\* C14: every bitstream file the writer has written is named after a model
\* of the registry: a leaf under fwfpga/ that the registry does not hold
\* gives no file kingst-<leaf lower-cased>-fpga.bitstream.
FpgaClosedOverRegistry ==
    \A name \in DOMAIN w.files :
        EndsWith(name, FPGA_BITSTREAM) => name \in RegistryBitstreams

\* The segments of a path, split at "/"
RECURSIVE SegmentsOf(_)
SegmentsOf(path) ==
    IF \A k \in 1..Len(path) : path[k] # SLASH THEN <<path>>
    ELSE LET cut == CHOOSE k \in 1..Len(path) :
                        path[k] = SLASH /\ \A j \in 1..(k - 1) : path[j] # SLASH
         IN  <<SubSeq(path, 1, cut - 1)>> \o SegmentsOf(SubSeq(path, cut + 1, Len(path)))

\* The IDs of a path whose first segment fwusb is followed by the leaf fw<ID>
McuIds(segments) ==
    { SliceFrom(segments[k + 1], Len(FW)) :
        k \in { k \in 1..(Len(segments) - 1) :
                  /\ segments[k] = FWUSB
                  /\ \A j \in 1..(k - 1) : segments[j] # FWUSB
                  /\ k + 1 = Len(segments)
                  /\ StartsWith(segments[k + 1], FW) } }
McuFilesBySegments(path) == {KINGST_LA \o Lower(id) \o DOT_FW : id \in McuIds(SegmentsOf(path))}

\* C15: when the writer has gone through the dict without an exception, the
\* .fw files on disk are those of the paths that have a segment fwusb, at its
\* first occurrence, followed by a leaf fw<ID>, and no others.
McuBySegments ==
    (pc \in {"finish", "done"} /\ w.st = "ok") =>
        {name \in DOMAIN w.files : EndsWith(name, DOT_FW)}
            = UNION {McuFilesBySegments(path) : path \in DOMAIN resources}

\* The name-table start of the section, and the offsets of the window that
\* hold a root record
NamesBase == _names_anchor(const_data).names_base
InWindow(c) ==
    /\ 0 <= c
    /\ NamesBase - TREE_WINDOW <= c
    /\ c <= NamesBase - _TREE_ENTRY_SIZE
    /\ (NamesBase - c) % 2 = 0
HoldsRoot(c) ==
    /\ U16BE(const_data, c + 4) = 2
    /\ U32BE(const_data, c + 6) >= 2
    /\ U32BE(const_data, c + 6) <= 10
    /\ U32BE(const_data, c + 10) = 1
RootOffsets == {c \in 0..(NamesBase - _TREE_ENTRY_SIZE) : InWindow(c) /\ HoldsRoot(c)}
TreeSearched ==
    /\ "_find_qt_anchors" \in calls
    /\ anchors.st = "ok" \/ (anchors.st = "RuntimeError" /\ anchors.why = "tree")

\* C16: when the search has come to the tree, it returns the largest offset
\* of the window that holds a root record, the offsets 0 and names_base - 4000
\* included, and fails for the tree exactly when the window holds none.
TreeAnchorWindow ==
    TreeSearched =>
        IF RootOffsets = {}
        THEN anchors.st = "RuntimeError"
        ELSE anchors.st = "ok" /\ anchors.tree_base = SetMax(RootOffsets)

\* The tuples of the direct-children walk over the directory at dir_idx
ChildrenOf(dir_idx) ==
    _collect_dir_children(const_data, anchors.tree_base, anchors.data_base,
                          anchors.name_by_off, dir_idx).results
WholePayload(child) ==
    /\ 1 <= child.stored_size
    /\ child.stored_size <= 2000000
    /\ Len(child.blob) = child.stored_size

\* C17: once the anchor strategy has walked the two directories of the
\* root, every tuple the walk yields has a stored size from 1 to 2,000,000
\* and a payload of exactly that many bytes.
PayloadHasStoredSize ==
    "_extract_macho_firmware" \in calls =>
        \A dir_idx \in 1..2 :
            \A k \in 1..Len(ChildrenOf(dir_idx)) : WholePayload(ChildrenOf(dir_idx)[k])

\* Two data records before the end-of-file record, both at one address
TiedPair(lines, j, k) ==
    /\ DataLines(lines) = {j, k}
    /\ j < k
    /\ RecordAddress(lines[j]) = RecordAddress(lines[k])
LaterWins(lines, j, k, blob) ==
    \A o \in 0..65535 + 255 :
        (Covers(lines[j], o) /\ Covers(lines[k], o))
            => o < Len(blob) /\ blob[o + 1] = RecordByte(lines[k], o)
HexDecoded == pc = "done" /\ hexdata # <<>> /\ hexdata[1] = COLON /\ HexValid(SplitLines(hexdata))

\* C18: when the two data records of a valid text have the same address,
\* the image holds, at every offset both cover, the byte of the record that
\* comes later in the input.
HexTieKeepsInputOrder ==
    HexDecoded =>
        \A j, k \in DataLines(SplitLines(hexdata)) :
            TiedPair(SplitLines(hexdata), j, k)
                => hexout.st = "ok" /\ LaterWins(SplitLines(hexdata), j, k, hexout.blob)

\* The ends of the data records at the highest address: the last record
\* after a sort by address is one of them
LastAddress(lines) == SetMax({RecordAddress(lines[k]) : k \in DataLines(lines)})
LastEnds(lines) ==
    {RecordEnd(lines[k]) : k \in {k \in DataLines(lines) : RecordAddress(lines[k]) = LastAddress(lines)}}

\* C19: a valid text with a data record before its end-of-file record
\* decodes to an image whose length is the address plus the length of the
\* last record in address order, whether or not records overlap or an
\* earlier-addressed record ends past the last one.
HexLengthFromLast ==
    (HexDecoded /\ DataLines(SplitLines(hexdata)) # {})
        => hexout.st = "ok" /\ Len(hexout.blob) \in LastEnds(SplitLines(hexdata))

\* The entries of the name table from the anchor on: the entry at e has the
\* length EntryLength(e) and is followed by the entry 6 + 2 * length further;
\* the first entry of length 0 or above 64, or one whose header the section
\* does not hold, ends the table.
EntryLength(e) == U16BE(const_data, NamesBase + e)
EntryNext(e) == e + 6 + 2 * EntryLength(e)
EntryName(e) ==
    DecodeUtf16BE(Slice(const_data, NamesBase + e + 6, NamesBase + EntryNext(e))).text
TableEnds(e) ==
    \/ NamesBase + e + 6 > Len(const_data)
    \/ EntryLength(e) = 0
    \/ EntryLength(e) > 64
RECURSIVE EntriesFrom(_)
EntriesFrom(e) == IF TableEnds(e) THEN {} ELSE {e} \cup EntriesFrom(EntryNext(e))
EntryKeys(e) == {e + 2, e + 6}
TableEnd(entries) == IF entries = {} THEN 0 ELSE EntryNext(SetMax(entries))

NamesScanned == "_find_qt_anchors" \in calls /\ _names_anchor(const_data).st = "ok"
IndexOfEntries(entries, scan) ==
    /\ scan.st = "ok"
    /\ scan.off = TableEnd(entries)
    /\ DOMAIN scan.name_by_off = UNION {EntryKeys(e) : e \in entries}
    /\ \A e \in entries : \A key \in EntryKeys(e) : scan.name_by_off[key] = EntryName(e)
    /\ \A e, f \in entries : e # f => EntryKeys(e) \cap EntryKeys(f) = {}
    /\ anchors.st = "ok" => /\ anchors.name_by_off = scan.name_by_off
                            /\ anchors.names_end = anchors.names_base + scan.off

RegionsOrdered ==
    anchors.st = "ok" =>
        /\ 0 <= anchors.tree_base
        /\ anchors.tree_base + 14 <= anchors.names_base
        /\ anchors.names_base <= anchors.names_end
        /\ anchors.names_end <= anchors.data_base
        /\ anchors.data_base + 4 <= Len(const_data)

\* The search has succeeded on a section whose names anchor came from the
\* characters alone, with a root record reaching into the entry's header
RegionsOrderedWitness ==
    /\ anchors.st = "ok"
    /\ _names_anchor(const_data).fallback
    /\ anchors.names_base = NamesBase
    /\ HoldsRoot(NamesBase - 8)

\* ------------------------------------------------------------------------
\* mcp_server.py: the stdio loop of main with handle_request
\* ------------------------------------------------------------------------

\* JSON values as the loop looks at them.  A scalar is its type and its
\* text; a params value is null, the empty list, or an object that may hold
\* "name"; a document is a scalar, the empty list, or an object that may hold
\* "method", "id" and "params".  All documents have the same fields.
JNull == [t |-> "null", v |-> <<>>]
JInt(digits) == [t |-> "int", v |-> digits]
JStr(s) == [t |-> "str", v |-> s]
JList == [t |-> "list", v |-> <<>>]

ParamsOf(t, has, name) == [t |-> t, has |-> has, name |-> name]
ParamsNull == ParamsOf("null", {}, JNull)
ParamsList == ParamsOf("list", {}, JNull)
ParamsDict == ParamsOf("dict", {}, JNull)
ParamsNamed(name) == ParamsOf("dict", {"name"}, name)

Document(t, v, has, method, id, params) ==
    [t |-> t, v |-> v, has |-> has, method |-> method, id |-> id, params |-> params]
NotAnObject(jv) == Document(jv.t, jv.v, {}, JNull, JNull, ParamsNull)
Request(has, method, id, params) == Document("dict", <<>>, has, method, id, params)
Called(id, method) == Request({"id", "method"}, JStr(method), id, ParamsNull)
Notified(method) == Request({"method"}, JStr(method), JNull, ParamsNull)
ToolCalled(id, params) ==
    Request({"id", "method", "params"}, JStr(T(<<"t", "o", "o", "l", "s", "/", "c", "a", "l", "l">>)),
            id, params)

\* json.dumps: the text of a document
Quoted(s) == T(<<"dquote">>) \o s \o T(<<"dquote">>)
NULL_TEXT == T(<<"n", "u", "l", "l">>)
LIST_TEXT == T(<<"[", "]">>)
DumpsValue(jv) ==
    IF jv.t = "null" THEN NULL_TEXT
    ELSE IF jv.t = "int" THEN jv.v
    ELSE IF jv.t = "str" THEN Quoted(jv.v)
    ELSE LIST_TEXT
Member(key, text) == Quoted(key) \o T(<<":", " ">>) \o text
RECURSIVE Joined(_)
Joined(members) ==
    IF members = <<>> THEN <<>>
    ELSE IF Len(members) = 1 THEN Head(members)
    ELSE Head(members) \o T(<<",", " ">>) \o Joined(Tail(members))
Braced(members) == T(<<"{">>) \o Joined(members) \o T(<<"}">>)
DumpsParams(p) ==
    IF p.t = "null" THEN NULL_TEXT
    ELSE IF p.t = "list" THEN LIST_TEXT
    ELSE Braced(IF "name" \in p.has
                THEN <<Member(T(<<"n", "a", "m", "e">>), DumpsValue(p.name))>> ELSE <<>>)
Dumps(doc) ==
    IF doc.t # "dict" THEN DumpsValue(doc)
    ELSE Braced(
           (IF "id" \in doc.has THEN <<Member(T(<<"i", "d">>), DumpsValue(doc.id))>> ELSE <<>>)
        \o (IF "method" \in doc.has
            THEN <<Member(T(<<"m", "e", "t", "h", "o", "d">>), DumpsValue(doc.method))>>
            ELSE <<>>)
        \o (IF "params" \in doc.has
            THEN <<Member(T(<<"p", "a", "r", "a", "m", "s">>), DumpsParams(doc.params))>>
            ELSE <<>>))

INITIALIZE == T(<<"i", "n", "i", "t", "i", "a", "l", "i", "z", "e">>)
NOTIFICATIONS_INITIALIZED ==
    T(<<"n", "o", "t", "i", "f", "i", "c", "a", "t", "i", "o", "n", "s", "/",
        "i", "n", "i", "t", "i", "a", "l", "i", "z", "e", "d">>)
TOOLS_LIST == T(<<"t", "o", "o", "l", "s", "/", "l", "i", "s", "t">>)
TOOLS_CALL == T(<<"t", "o", "o", "l", "s", "/", "c", "a", "l", "l">>)
PING == T(<<"p", "i", "n", "g">>)

SCAN_DEVICE == T(<<"s", "c", "a", "n", "_", "d", "e", "v", "i", "c", "e">>)
\* Lines 444-451: the names of the tool handlers
HANDLERS ==
    { SCAN_DEVICE, T(<<"c", "a", "p", "t", "u", "r", "e">>),
      T(<<"d", "e", "c", "o", "d", "e", "_", "u", "a", "r", "t">>),
      T(<<"d", "e", "c", "o", "d", "e", "_", "p", "r", "o", "t", "o", "c", "o", "l">>),
      T(<<"l", "i", "s", "t", "_", "d", "e", "c", "o", "d", "e", "r", "s">>),
      T(<<"s", "a", "v", "e", "_", "c", "a", "p", "t", "u", "r", "e">>) }

PARSE_ERROR == -32700
METHOD_NOT_FOUND == -32601

\* A response line: a result (of which kind, and its isError when it is a
\* tool result) or an error with its code
NoResponse == [kind |-> "None", id |-> JNull, code |-> 0, result |-> "", isError |-> FALSE]
\* Lines 30-31
_make_response(id_, payload, is_error) ==
    [kind |-> "result", id |-> id_, code |-> 0, result |-> payload, isError |-> is_error]
\* Lines 33-34
_make_error(id_, code) ==
    [kind |-> "error", id |-> id_, code |-> code, result |-> "", isError |-> FALSE]

Returned(response) == [st |-> "ok", response |-> response]
Raised(st) == [st |-> st, response |-> NoResponse]

\* Lines 474-484: tools/call.  params.get raises AttributeError when params
\* is no dict; HANDLERS.get(name) raises TypeError when name is a list, which
\* cannot be hashed; an exception of the handler is caught.
_tools_call(id_, params, handler_raises) ==
    IF params.t # "dict" THEN Raised("AttributeError")
    ELSE LET name == IF "name" \in params.has THEN params.name ELSE JStr(<<>>)
         IN  IF name.t = "list" THEN Raised("TypeError")
             ELSE IF ~(name.t = "str" /\ name.v \in HANDLERS)
             THEN Returned(_make_response(id_, "tool_result", TRUE))
             ELSE Returned(_make_response(id_, "tool_result", handler_raises))

\* Lines 458-491.  req.get raises AttributeError when req is no dict.
handle_request(req, handler_raises) ==
    IF req.t # "dict" THEN Raised("AttributeError")
    ELSE
      LET method == IF "method" \in req.has THEN req.method ELSE JStr(<<>>)
          id_ == IF "id" \in req.has THEN req.id ELSE JNull
          params == IF "params" \in req.has THEN req.params ELSE ParamsDict
      IN  IF method = JStr(INITIALIZE) THEN Returned(_make_response(id_, "initialize", FALSE))
          ELSE IF method = JStr(NOTIFICATIONS_INITIALIZED) THEN Returned(NoResponse)
          ELSE IF method = JStr(TOOLS_LIST) THEN Returned(_make_response(id_, "tools", FALSE))
          ELSE IF method = JStr(TOOLS_CALL) THEN _tools_call(id_, params, handler_raises)
          ELSE IF method = JStr(PING) THEN Returned(_make_response(id_, "empty", FALSE))
          ELSE Returned(_make_error(id_, METHOD_NOT_FOUND))

\* Whether the request reaches handler(args) at line 481
CallsHandler(req) ==
    /\ req.t = "dict"
    /\ "method" \in req.has /\ req.method = JStr(TOOLS_CALL)
    /\ "params" \in req.has /\ req.params.t = "dict"
    /\ "name" \in req.params.has
    /\ req.params.name.t = "str" /\ req.params.name.v \in HANDLERS

\* The documents a client may send: values that are no object; objects
\* without method, with each known method, with an unknown one, with and
\* without id, with ids that are numbers and strings; tool calls of a known
\* and of an unknown tool, without name, and with params and a name of the
\* wrong type.
ONE == T(<<"1">>)
TWO == T(<<"2">>)
Documents ==
    { NotAnObject(JList), NotAnObject(JInt(ONE)), NotAnObject(JNull), NotAnObject(JStr(X)),
      Request({}, JNull, JNull, ParamsNull),
      Called(JInt(ONE), INITIALIZE),
      Notified(NOTIFICATIONS_INITIALIZED),
      Called(JInt(TWO), NOTIFICATIONS_INITIALIZED),
      Called(JInt(TWO), TOOLS_LIST),
      Called(JInt(ONE), PING),
      Called(JStr(X), PING),
      Notified(PING),
      Called(JInt(TWO), X),
      ToolCalled(JInt(ONE), ParamsNamed(JStr(SCAN_DEVICE))),
      ToolCalled(JInt(TWO), ParamsNamed(JStr(X))),
      ToolCalled(JInt(ONE), ParamsDict),
      ToolCalled(JInt(TWO), ParamsNull),
      ToolCalled(JInt(ONE), ParamsList),
      ToolCalled(JInt(TWO), ParamsNamed(JList)) }

\* json.loads on the lines of the model: the document whose text the line
\* is, JSONDecodeError when it is the text of none
json_loads(line) ==
    IF \E doc \in Documents : Dumps(doc) = line
    THEN [ok |-> TRUE, req |-> CHOOSE doc \in Documents : Dumps(doc) = line]
    ELSE [ok |-> FALSE, req |-> NotAnObject(JNull)]

\* The lines of stdin: the documents, one of them between blanks, an empty
\* line, a line of blanks, and two lines that are no JSON
BadLines == { T(<<"{", "b", "a", "d">>), T(<<"p", "i", "n", "g">>) }
BlankLines == { <<>>, T(<<" ", " ">>) }
Lines ==
    {Dumps(doc) : doc \in Documents}
    \cup {T(<<" ">>) \o Dumps(Called(JInt(ONE), PING)) \o T(<<" ">>)}
    \cup BadLines \cup BlankLines

MaxRequests == 2
Inputs == UNION {[1..n -> Lines] : n \in 0..MaxRequests}

InitServer ==
    /\ pc = "main"
    /\ data = <<>>
    /\ RunIdle /\ HexIdle /\ WalkIdle /\ EquivIdle
    /\ stdin \in Inputs
    /\ lineno = 0
    /\ stdout = <<>>
    /\ main = "running"
    /\ raised = <<>>

\* Lines 497-509: what one turn of the loop makes of a stripped line
Served(line, parsed, handler_raises) ==
    IF line = <<>> THEN UNCHANGED <<stdout, main>>
    ELSE IF ~parsed.ok
    THEN stdout' = Append(stdout, _make_error(JNull, PARSE_ERROR)) /\ UNCHANGED main
    ELSE LET r == handle_request(parsed.req, handler_raises)
         IN  IF r.st # "ok" THEN main' = r.st /\ UNCHANGED stdout
             ELSE IF r.response = NoResponse THEN UNCHANGED <<stdout, main>>
             ELSE stdout' = Append(stdout, r.response) /\ UNCHANGED main

\* Lines 495-509: one turn of for line in sys.stdin
ServeLine ==
    /\ main = "running"
    /\ lineno < Len(stdin)
    /\ lineno' = lineno + 1
    /\ \E handler_raises \in BOOLEAN :
          /\ handler_raises => CallsHandler(json_loads(Strip(stdin[lineno + 1])).req)
          /\ raised' = Append(raised, handler_raises)
          /\ Served(Strip(stdin[lineno + 1]), json_loads(Strip(stdin[lineno + 1])),
                    handler_raises)
    /\ UNCHANGED <<run_vars, hex_vars, walk_vars, equiv_vars, stdin>>

\* Line 495: stdin is at its end
MainReturns ==
    /\ main = "running"
    /\ lineno = Len(stdin)
    /\ main' = "returned"
    /\ UNCHANGED <<run_vars, hex_vars, walk_vars, equiv_vars, stdin, lineno, stdout, raised>>

NextServer == ServeLine \/ MainReturns

SpecServer == InitServer /\ [][NextServer]_vars

\* What the discipline asks of one input line: no response to a blank line
\* and to a notifications/initialized request, one response to any other
\* line, which carries the request's id (null when there is none), the code
\* -32700 when the line is no JSON, the code -32601 when the method is
\* unknown, and isError when a tool handler raised.
IsBlank(line) == Strip(line) = <<>>
Parseable(line) == \E doc \in Documents : Dumps(doc) = Strip(line)
DocumentOf(line) == CHOOSE doc \in Documents : Dumps(doc) = Strip(line)
KNOWN_METHODS ==
    {JStr(INITIALIZE), JStr(NOTIFICATIONS_INITIALIZED), JStr(TOOLS_LIST), JStr(TOOLS_CALL),
     JStr(PING)}
MethodOf(doc) == IF doc.t = "dict" /\ "method" \in doc.has THEN doc.method ELSE JStr(<<>>)
IdOf(doc) == IF doc.t = "dict" /\ "id" \in doc.has THEN doc.id ELSE JNull
IsNotification(line) ==
    Parseable(line) /\ MethodOf(DocumentOf(line)) = JStr(NOTIFICATIONS_INITIALIZED)
Answered(line) == ~IsBlank(line) /\ ~IsNotification(line)
Rank(k) == Cardinality({j \in 1..k : Answered(stdin[j])})
Answers(line, handler_raised, response) ==
    IF ~Parseable(line)
    THEN response.kind = "error" /\ response.code = 0 - 32700 /\ response.id = JNull
    ELSE /\ response.id = IdOf(DocumentOf(line))
         /\ MethodOf(DocumentOf(line)) \notin KNOWN_METHODS
               => response.kind = "error" /\ response.code = 0 - 32601
         /\ handler_raised => response.kind = "result" /\ response.isError

\* C22: no input line ends the loop, which returns only at the end of
\* stdin; the responses written so far are, in order, one for each line read
\* that is neither blank nor a notifications/initialized request, each as the
\* discipline asks.
RequestResponseDiscipline ==
    /\ main \in {"running", "returned"}
    /\ main = "returned" => lineno = Len(stdin)
    /\ Len(stdout) = Rank(lineno)
    /\ \A k \in 1..lineno :
          Answered(stdin[k]) => Answers(stdin[k], raised[k], stdout[Rank(k)])

============================================================================
